---- MODULE Spec2Model ----
(***************************************************************************)
(* dintact: three-way reconciliation of a hot tree, a cold tree and the    *)
(* cold checksum index (dintact.py, changes.py, index.py, utils.py).       *)
(***************************************************************************)
EXTENDS Integers, Sequences, FiniteSets, TLC

\* File contents are 1..MaxContent (a content k stands for a file of k bytes).
MaxContent == 3
\* Number of distinct digests the model's hash has: contents that agree
\* modulo HashBuckets collide ("equal checksums do not imply equality").
HashBuckets == 2

GITIGNORE == ".gitignore"
TopNames == {"a"}
SubNames == {GITIGNORE, "x"}
Root == <<>>
\* entries of the root that only sync sessions have: the index file of a
\* cold tree and a picture
INDEX_FILENAME == "index.txt"
RootFiles == {INDEX_FILENAME, "p.jpg"}
\* The relative paths of the modelled trees: a/, a/.gitignore, a/x, and
\* the root files
Paths == {<<t>> : t \in TopNames} \cup {<<t, s>> : t \in TopNames, s \in SubNames}
         \cup {<<f>> : f \in RootFiles}

Contents == 1..MaxContent
\* Checksums an index line can hold: every digest, and one that is the
\* digest of no modelled content (value HashBuckets).
Checksums == 0..HashBuckets

---------------------------------------------------------------------------
(* Values *)
None == [kind |-> "none"]
Dir == [kind |-> "dir"]
File(c) == [kind |-> "file", data |-> c]

Str(s) == [str |-> s]
Idx(i) == [idx |-> i]
Missing == [missing |-> TRUE]
IsStr(v) == "str" \in DOMAIN v
IsIdx(v) == "idx" \in DOMAIN v

EmptyMap == [n \in {} |-> 0]
Without(f, k) == [n \in (DOMAIN f) \ {k} |-> f[n]]
With(f, k, v) == [n \in (DOMAIN f) \cup {k} |-> IF n = k THEN v ELSE f[n]]

IsPrefix(p, q) == Len(p) <= Len(q) /\ SubSeq(q, 1, Len(p)) = p
RelativeTo(q, p) == SubSeq(q, Len(p) + 1, Len(q))
Parent(p) == SubSeq(p, 1, Len(p) - 1)
\* some fixed enumeration of a set (Python's set iteration order)
SetToSeq(S) == CHOOSE s \in [1..Cardinality(S) -> S] : \A i, j \in 1..Cardinality(S) : i # j => s[i] # s[j]

---------------------------------------------------------------------------
(* index.py: class Index *)
EmptyIndex == [files |-> EmptyMap, dirs |-> EmptyMap]

RECURSIVE IndexLen(_)
IndexLen(I) ==
    LET RECURSIVE Sum(_)
        Sum(S) == IF S = {} THEN 0
                  ELSE LET d == CHOOSE d \in S : TRUE IN IndexLen(I.dirs[d]) + Sum(S \ {d})
    IN Sum(DOMAIN I.dirs) + Cardinality(DOMAIN I.files)

\* looks at the first component only
Contains_headonly(I, k) ==
    Len(k) = 0 \/ k[1] \in DOMAIN I.files \/ k[1] \in DOMAIN I.dirs

RECURSIVE Contains(_, _)
Contains(I, k) ==
    IF Len(k) = 0 THEN TRUE
    ELSE IF Len(k) = 1 THEN k[1] \in DOMAIN I.files \/ k[1] \in DOMAIN I.dirs
    ELSE k[1] \in DOMAIN I.dirs /\ Contains(I.dirs[k[1]], Tail(k))

RECURSIVE GetItem(_, _)
GetItem(I, k) ==
    IF Len(k) = 0 THEN Idx(I)
    ELSE IF Len(k) = 1 THEN
        IF k[1] \in DOMAIN I.files THEN Str(I.files[k[1]])
        ELSE IF k[1] \in DOMAIN I.dirs THEN Idx(I.dirs[k[1]])
        ELSE Missing
    ELSE IF k[1] \in DOMAIN I.dirs THEN GetItem(I.dirs[k[1]], Tail(k))
    ELSE Missing

\* the single-component assertions left out
RECURSIVE SetItem_unchecked(_, _, _)
SetItem_unchecked(I, k, v) ==
    IF Len(k) = 0 THEN [ok |-> FALSE, idx |-> I]
    ELSE IF Len(k) = 1 THEN
        IF IsStr(v) THEN [ok |-> TRUE, idx |-> [I EXCEPT !.files = With(I.files, k[1], v.str)]]
        ELSE IF IsIdx(v) THEN [ok |-> TRUE, idx |-> [I EXCEPT !.dirs = With(I.dirs, k[1], v.idx)]]
        ELSE [ok |-> FALSE, idx |-> I]
    ELSE IF k[1] \in DOMAIN I.files THEN [ok |-> FALSE, idx |-> I]
    ELSE LET I1 == IF k[1] \in DOMAIN I.dirs THEN I
                   ELSE [I EXCEPT !.dirs = With(I.dirs, k[1], EmptyIndex)]
             r == SetItem_unchecked(I1.dirs[k[1]], Tail(k), v)
         IN [ok |-> r.ok, idx |-> [I1 EXCEPT !.dirs = With(I1.dirs, k[1], r.idx)]]

\* __setitem__: [ok |-> did not raise, idx |-> the index after the call]
RECURSIVE SetItem(_, _, _)
SetItem(I, k, v) ==
    IF Len(k) = 0 THEN [ok |-> FALSE, idx |-> I]
    ELSE IF Len(k) = 1 THEN
        IF IsStr(v) THEN
            IF k[1] \in DOMAIN I.dirs THEN [ok |-> FALSE, idx |-> I]
            ELSE [ok |-> TRUE, idx |-> [I EXCEPT !.files = With(I.files, k[1], v.str)]]
        ELSE IF IsIdx(v) THEN
            IF k[1] \in DOMAIN I.files THEN [ok |-> FALSE, idx |-> I]
            ELSE [ok |-> TRUE, idx |-> [I EXCEPT !.dirs = With(I.dirs, k[1], v.idx)]]
        ELSE [ok |-> FALSE, idx |-> I]
    ELSE IF k[1] \in DOMAIN I.files THEN [ok |-> FALSE, idx |-> I]
    ELSE LET I1 == IF k[1] \in DOMAIN I.dirs THEN I
                   ELSE [I EXCEPT !.dirs = With(I.dirs, k[1], EmptyIndex)]
             r == SetItem(I1.dirs[k[1]], Tail(k), v)
         IN [ok |-> r.ok, idx |-> [I1 EXCEPT !.dirs = With(I1.dirs, k[1], r.idx)]]

\* deletes the entry and leaves an emptied directory node in place
RECURSIVE DelItem_noprune(_, _)
DelItem_noprune(I, k) ==
    IF Len(k) = 0 THEN [ok |-> FALSE, idx |-> I]
    ELSE IF Len(k) = 1 THEN
        IF k[1] \in DOMAIN I.files THEN [ok |-> TRUE, idx |-> [I EXCEPT !.files = Without(I.files, k[1])]]
        ELSE IF k[1] \in DOMAIN I.dirs THEN [ok |-> TRUE, idx |-> [I EXCEPT !.dirs = Without(I.dirs, k[1])]]
        ELSE [ok |-> FALSE, idx |-> I]
    ELSE IF k[1] \notin DOMAIN I.dirs THEN [ok |-> FALSE, idx |-> I]
    ELSE LET r == DelItem_noprune(I.dirs[k[1]], Tail(k))
         IN IF ~r.ok THEN [ok |-> FALSE, idx |-> I]
            ELSE [ok |-> TRUE, idx |-> [I EXCEPT !.dirs = With(I.dirs, k[1], r.idx)]]

\* checks that the entry is there and deletes nothing
DelItem_keep(I, k) == [ok |-> Len(k) > 0 /\ Contains(I, k), idx |-> I]

\* __delitem__: [ok |-> did not raise, idx |-> the index after the call]
RECURSIVE DelItem(_, _)
DelItem(I, k) ==
    IF Len(k) = 0 THEN [ok |-> FALSE, idx |-> I]
    ELSE IF Len(k) = 1 THEN
        IF k[1] \in DOMAIN I.files THEN [ok |-> TRUE, idx |-> [I EXCEPT !.files = Without(I.files, k[1])]]
        ELSE IF k[1] \in DOMAIN I.dirs THEN [ok |-> TRUE, idx |-> [I EXCEPT !.dirs = Without(I.dirs, k[1])]]
        ELSE [ok |-> FALSE, idx |-> I]
    ELSE IF k[1] \notin DOMAIN I.dirs THEN [ok |-> FALSE, idx |-> I]
    ELSE LET r == DelItem(I.dirs[k[1]], Tail(k))
         IN IF ~r.ok THEN [ok |-> FALSE, idx |-> I]
            ELSE IF IndexLen(r.idx) = 0
                 THEN [ok |-> TRUE, idx |-> [I EXCEPT !.dirs = Without(I.dirs, k[1])]]
                 ELSE [ok |-> TRUE, idx |-> [I EXCEPT !.dirs = With(I.dirs, k[1], r.idx)]]

IterDir(I) == DOMAIN I.dirs \cup DOMAIN I.files

---------------------------------------------------------------------------
(* the filesystem: a tree is a function Paths -> None | Dir | File(c) *)
Exists(fs, p) == p = Root \/ (p \in Paths /\ fs[p].kind # "none")
IsFile(fs, p) == p \in Paths /\ fs[p].kind = "file"
IsDir(fs, p) == p = Root \/ (p \in Paths /\ fs[p].kind = "dir")
Children(p) == {q \in Paths : Len(q) = Len(p) + 1 /\ IsPrefix(p, q)}
ListDir(fs, p) == {q \in Children(p) : fs[q].kind # "none"}
Under(p) == {q \in Paths : IsPrefix(p, q)}
WellFormed(fs) == \A q \in Paths : fs[q].kind # "none" => IsDir(fs, Parent(q))
StSize(fs, p) == fs[p].data

\* xxh3_128 of a content, abstracted to a digest with collisions
Hash(c) == c % HashBuckets

---------------------------------------------------------------------------
(* utils.py: ignore rules, walk, cp, rm, hashing *)

\* The lines of a .gitignore whose content is c, as compiled patterns:
\* include "yes" = ordinary pattern, "no" = negated (!), "null" = comment.
GitignoreLines(c) ==
    IF c = 1 THEN <<[pattern |-> "x", include |-> "yes"]>>
    ELSE IF c = 2 THEN <<[pattern |-> "x", include |-> "yes"], [pattern |-> "x", include |-> "no"]>>
    ELSE <<[pattern |-> "", include |-> "null"]>>

\* rule.match_file(rel): a pattern without a slash matches any component
MatchFile(rule, rel) == \E i \in 1..Len(rel) : rel[i] = rule.pattern

\* the loop of is_relevant over rules[i..]: "error" when relative_to raises
RECURSIVE RuleLoop(_, _, _, _)
RuleLoop(p, rules, i, ignored) ==
    IF i > Len(rules) THEN (IF ignored THEN "irrelevant" ELSE "relevant")
    ELSE IF rules[i].include = "null" THEN RuleLoop(p, rules, i + 1, ignored)
    ELSE IF ~IsPrefix(rules[i].root, p) THEN "error"
    ELSE IF MatchFile(rules[i], RelativeTo(p, rules[i].root))
         THEN RuleLoop(p, rules, i + 1, rules[i].include = "yes")
         ELSE RuleLoop(p, rules, i + 1, ignored)

is_relevant(fs, p, rules, skip_first_check) ==
    IF ~skip_first_check /\ ~(IsFile(fs, p) \/ ListDir(fs, p) # {}) THEN "irrelevant"
    ELSE RuleLoop(p, rules, 1, FALSE)

add_scandir_rules(fs, p, rules) ==
    LET g == Append(p, GITIGNORE)
    IN IF g \in ListDir(fs, p) /\ IsFile(fs, g)
       THEN LET ls == GitignoreLines(fs[g].data)
            IN rules \o [i \in 1..Len(ls) |-> [root |-> p, pattern |-> ls[i].pattern, include |-> ls[i].include]]
       ELSE rules

\* hands every child the one list rules instead of a copy rules[:], so a
\* child's .gitignore stays in the list for the children scanned after it
RECURSIVE walk_node(_, _, _)
RECURSIVE walk_list(_, _, _, _)
walk_node(fs, p, rules) ==
    LET rel == is_relevant(fs, p, rules, TRUE)
    IN IF rel = "error" THEN [ok |-> FALSE, files |-> {}, rules |-> rules]
       ELSE IF rel = "irrelevant" THEN [ok |-> TRUE, files |-> {}, rules |-> rules]
       ELSE IF IsFile(fs, p) THEN [ok |-> TRUE, files |-> {p}, rules |-> rules]
       ELSE IF IsDir(fs, p) THEN
            LET children == ListDir(fs, p)
                dirs == {c \in children : IsDir(fs, c)}
            IN walk_list(fs, SetToSeq(dirs) \o SetToSeq(children \ dirs),
                         add_scandir_rules(fs, p, rules), [ok |-> TRUE, files |-> {}])
       ELSE [ok |-> FALSE, files |-> {}, rules |-> rules]
walk_list(fs, cs, rules, acc) ==
    IF cs = <<>> THEN [ok |-> acc.ok, files |-> acc.files, rules |-> rules]
    ELSE LET r == walk_node(fs, Head(cs), rules)
         IN walk_list(fs, Tail(cs), r.rules,
                      [ok |-> acc.ok /\ r.ok, files |-> acc.files \cup r.files])
walk_shared(fs, p, rules) ==
    LET r == walk_node(fs, p, rules) IN [ok |-> r.ok, files |-> r.files]

\* walk: [ok |-> did not raise, files |-> the regular files yielded]
RECURSIVE walk(_, _, _)
walk(fs, p, rules) ==
    LET rel == is_relevant(fs, p, rules, TRUE)
    IN IF rel = "error" THEN [ok |-> FALSE, files |-> {}]
       ELSE IF rel = "irrelevant" THEN [ok |-> TRUE, files |-> {}]
       ELSE IF IsFile(fs, p) THEN [ok |-> TRUE, files |-> {p}]
       ELSE IF IsDir(fs, p) THEN
            LET children == ListDir(fs, p)
                rules2 == add_scandir_rules(fs, p, rules)
                subs == {walk(fs, c, rules2) : c \in children}
            IN [ok |-> \A w \in subs : w.ok, files |-> UNION {w.files : w \in subs}]
       ELSE [ok |-> FALSE, files |-> {}]

\* slurp yields nothing when the file cannot be opened, so what is hashed
\* then is the empty input (content 0)
hash_file(fs, p) == IF IsFile(fs, p) THEN Hash(fs[p].data) ELSE Hash(0)

\* (hash of a, hash of b, bytes equal)
hash_compare_files(a, b) == <<Hash(a), Hash(b), a = b>>

RECURSIVE HashInto(_, _, _, _)
HashInto(fs, p, S, i) ==
    IF S = {} THEN i
    ELSE LET f == CHOOSE f \in S : TRUE
         IN HashInto(fs, p, S \ {f}, SetItem(i, RelativeTo(f, p), Str(hash_file(fs, f))).idx)

RECURSIVE SizeSum(_, _)
SizeSum(fs, S) ==
    IF S = {} THEN 0
    ELSE LET f == CHOOSE f \in S : TRUE IN StSize(fs, f) + SizeSum(fs, S \ {f})

\* hash_tree: [ok, val |-> Idx(i) | Str(h), size]
hash_tree(fs, p) ==
    IF IsDir(fs, p) THEN
        LET files == {f \in Under(p) : f # p /\ IsFile(fs, f)}
        IN [ok |-> TRUE, val |-> Idx(HashInto(fs, p, files, EmptyIndex)), size |-> SizeSum(fs, files)]
    ELSE IF IsFile(fs, p) THEN [ok |-> TRUE, val |-> Str(hash_file(fs, p)), size |-> StSize(fs, p)]
    ELSE [ok |-> FALSE, val |-> Missing, size |-> 0]

\* cp(source, target) with source = src/p, target = dst/p
cp(src, dst, p, rules) ==
    IF ~Exists(src, p) \/ Exists(dst, p) THEN [ok |-> FALSE, fs |-> dst]
    ELSE LET w == walk(src, p, rules)
             made == {q \in Paths : \E f \in w.files : IsPrefix(q, f) /\ q # f}
         IN IF ~w.ok \/ \E q \in made : dst[q].kind = "file" THEN [ok |-> FALSE, fs |-> dst]
            ELSE [ok |-> TRUE,
                  fs |-> [q \in Paths |-> IF q \in w.files THEN src[q]
                                          ELSE IF q \in made THEN Dir
                                          ELSE dst[q]]]

rm(fs, p) ==
    IF ~Exists(fs, p) THEN [ok |-> FALSE, fs |-> fs]
    ELSE [ok |-> TRUE, fs |-> [q \in Paths |-> IF IsPrefix(p, q) THEN None ELSE fs[q]]]

---------------------------------------------------------------------------
(* changes.py: the change variants, as records *)
Change(kind, name, index, size) == [kind |-> kind, name |-> name, index |-> index, size |-> size]
Moved(name, index, original) ==
    [kind |-> "Moved", name |-> name, index |-> index, size |-> 0, original |-> original]

\* the rule list a change hands to cp (none is built by walk_trees)
ChangeRules == <<>>

---------------------------------------------------------------------------
(* dintact.py: the tree diff *)
\* never tells Corrupted from ModifiedCorrupted
_compare_files_nocorrupted(path, cold_index, hot, cold) ==
    LET r == hash_compare_files(hot[path].data, cold[path].data)
        hot_hash == Str(r[1])
        cold_hash == Str(r[2])
        eq == r[3]
    IN IF eq THEN
           IF ~Contains(cold_index, path) THEN <<Change("AddedCopied", path, hot_hash, 0)>>
           ELSE IF GetItem(cold_index, path) # cold_hash THEN <<Change("ModifiedCopied", path, hot_hash, 0)>>
           ELSE <<>>
       ELSE
           IF ~Contains(cold_index, path) THEN <<Change("AddedAppeared", path, hot_hash, StSize(hot, path))>>
           ELSE IF GetItem(cold_index, path) # cold_hash
           THEN <<Change("ModifiedCorrupted", path, hot_hash, StSize(hot, path))>>
           ELSE <<Change("Modified", path, hot_hash, StSize(hot, path))>>

_compare_files(path, cold_index, hot, cold) ==
    LET r == hash_compare_files(hot[path].data, cold[path].data)
        hot_hash == Str(r[1])
        cold_hash == Str(r[2])
        eq == r[3]
    IN IF eq THEN
           IF ~Contains(cold_index, path) THEN <<Change("AddedCopied", path, hot_hash, 0)>>
           ELSE IF GetItem(cold_index, path) # cold_hash THEN <<Change("ModifiedCopied", path, hot_hash, 0)>>
           ELSE <<>>
       ELSE
           IF ~Contains(cold_index, path) THEN <<Change("AddedAppeared", path, hot_hash, StSize(hot, path))>>
           ELSE IF GetItem(cold_index, path) # cold_hash THEN
               IF hot_hash = GetItem(cold_index, path)
               THEN <<Change("Corrupted", path, Missing, StSize(hot, path))>>
               ELSE <<Change("ModifiedCorrupted", path, hot_hash, StSize(hot, path))>>
           ELSE <<Change("Modified", path, hot_hash, StSize(hot, path))>>

\* the relevant entries of fs/path (is_relevant is called without rules)
RelevantChildren(fs, path) == {q \in ListDir(fs, path) : is_relevant(fs, q, <<>>, FALSE) = "relevant"}
IndexChildren(path, sub_index) ==
    IF IsIdx(sub_index) THEN {Append(path, n) : n \in IterDir(sub_index.idx)} ELSE {}

\* never recognises an unchanged hot tree as Lost
HotOnly_nolost(hot_child, cold_index, hot) ==
    LET t == hash_tree(hot, hot_child)
    IN IF ~Contains(cold_index, hot_child) THEN Change("Added", hot_child, t.val, t.size)
       ELSE Change("ModifiedLost", hot_child, t.val, t.size)

\* H C I: 1 0 X
HotOnly(hot_child, cold_index, hot) ==
    LET t == hash_tree(hot, hot_child)
    IN IF ~Contains(cold_index, hot_child) THEN Change("Added", hot_child, t.val, t.size)
       ELSE IF t.val = GetItem(cold_index, hot_child) THEN Change("Lost", hot_child, Missing, t.size)
       ELSE Change("ModifiedLost", hot_child, t.val, t.size)

\* takes a cold tree that no longer matches the index for intact
ColdOnly_swapped(cold_child, cold_index, cold) ==
    IF ~Contains(cold_index, cold_child) THEN Change("Appeared", cold_child, Missing, 0)
    ELSE IF hash_tree(cold, cold_child).val # GetItem(cold_index, cold_child)
         THEN Change("Removed", cold_child, GetItem(cold_index, cold_child), 0)
         ELSE Change("RemovedCorrupted", cold_child, GetItem(cold_index, cold_child), 0)

\* H C I: 0 1 X
ColdOnly(cold_child, cold_index, cold) ==
    IF ~Contains(cold_index, cold_child) THEN Change("Appeared", cold_child, Missing, 0)
    ELSE IF hash_tree(cold, cold_child).val = GetItem(cold_index, cold_child)
         THEN Change("Removed", cold_child, GetItem(cold_index, cold_child), 0)
         ELSE Change("RemovedCorrupted", cold_child, GetItem(cold_index, cold_child), 0)

\* H C I: 0 0 1
IndexOnly(index_child) == Change("RemovedLost", index_child, Missing, 0)

RECURSIVE Concat(_)
Concat(ss) == IF ss = <<>> THEN <<>> ELSE Head(ss) \o Concat(Tail(ss))

RECURSIVE walk_trees(_, _, _, _)
\* the index-only region computed without taking the cold children out
_compare_dirs_coldkept(path, cold_index, hot, cold, sub_index) ==
    LET hot_children == RelevantChildren(hot, path)
        cold_children == RelevantChildren(cold, path)
        index_children == IndexChildren(path, sub_index)
        h == SetToSeq(hot_children \ cold_children)
        c == SetToSeq(cold_children \ hot_children)
        i == SetToSeq(index_children \ hot_children)
        b == SetToSeq(hot_children \cap cold_children)
        rec == [n \in 1..Len(b) |-> walk_trees(b[n], cold_index, hot, cold)]
    IN [ok |-> \A n \in 1..Len(b) : rec[n].ok,
        changes |-> [n \in 1..Len(h) |-> HotOnly(h[n], cold_index, hot)]
                    \o [n \in 1..Len(c) |-> ColdOnly(c[n], cold_index, cold)]
                    \o [n \in 1..Len(i) |-> IndexOnly(i[n])]
                    \o Concat([n \in 1..Len(b) |-> rec[n].changes])]

_compare_dirs(path, cold_index, hot, cold, sub_index) ==
    LET hot_children == RelevantChildren(hot, path)
        cold_children == RelevantChildren(cold, path)
        index_children == IndexChildren(path, sub_index)
        h == SetToSeq(hot_children \ cold_children)
        c == SetToSeq(cold_children \ hot_children)
        i == SetToSeq((index_children \ hot_children) \ cold_children)
        b == SetToSeq(hot_children \cap cold_children)
        rec == [n \in 1..Len(b) |-> walk_trees(b[n], cold_index, hot, cold)]
    IN [ok |-> \A n \in 1..Len(b) : rec[n].ok,
        changes |-> [n \in 1..Len(h) |-> HotOnly(h[n], cold_index, hot)]
                    \o [n \in 1..Len(c) |-> ColdOnly(c[n], cold_index, cold)]
                    \o [n \in 1..Len(i) |-> IndexOnly(i[n])]
                    \o Concat([n \in 1..Len(b) |-> rec[n].changes])]

\* [ok |-> FALSE] is the NotImplementedError "File/Folder name collision"
walk_trees(path, cold_index, hot, cold) ==
    LET sub_index == IF Contains(cold_index, path) THEN GetItem(cold_index, path) ELSE Missing
    IN IF IsFile(hot, path) /\ IsFile(cold, path)
       THEN [ok |-> TRUE, changes |-> _compare_files(path, cold_index, hot, cold)]
       ELSE IF ~IsDir(hot, path) \/ ~IsDir(cold, path) \/ IsStr(sub_index)
       THEN [ok |-> FALSE, changes |-> <<>>]
       ELSE _compare_dirs(path, cold_index, hot, cold, sub_index)

---------------------------------------------------------------------------
(* changes.py: apply.  A run state st is                                    *)
(* [ok |-> nothing raised so far, hot, cold, index, ops |-> calls made].    *)
Call(st, op, path) == Append(st.ops, [op |-> op, path |-> path])

\* cp(hot_dir / self.name, cold_dir / self.name, self.rules, pbar)
DoCp(ch, st) ==
    IF ~st.ok THEN st
    ELSE LET r == cp(st.hot, st.cold, ch.name, ChangeRules)
         IN [st EXCEPT !.ok = r.ok, !.cold = r.fs, !.ops = Call(st, "cp", ch.name)]

\* rm(cold_dir / self.name)
DoRm(ch, st) ==
    IF ~st.ok THEN st
    ELSE LET r == rm(st.cold, ch.name)
         IN [st EXCEPT !.ok = r.ok, !.cold = r.fs, !.ops = Call(st, "rm", ch.name)]

\* index[self.name] = self.index
DoSet(ch, st) ==
    IF ~st.ok THEN st
    ELSE LET r == SetItem(st.index, ch.name, ch.index)
         IN [st EXCEPT !.ok = r.ok, !.index = r.idx, !.ops = Call(st, "set", ch.name)]

\* del index[self.name]
DoDel(ch, st) ==
    IF ~st.ok THEN st
    ELSE LET r == DelItem(st.index, ch.name)
         IN [st EXCEPT !.ok = r.ok, !.index = r.idx, !.ops = Call(st, "del", ch.name)]

AddedCopied_apply(ch, st) == DoSet(ch, st)
\* records the index entry before the copy is made
Added_apply_setfirst(ch, st) == DoCp(ch, DoSet(ch, st))
Added_apply(ch, st) == DoSet(ch, DoCp(ch, st))
Lost_apply(ch, st) == DoCp(ch, st)
\* removes the cold copy and forgets the index entry
Removed_apply_rmonly(ch, st) == DoRm(ch, st)
Removed_apply(ch, st) == DoDel(ch, DoRm(ch, st))
Modified_apply(ch, st) == DoSet(ch, DoCp(ch, DoRm(ch, st)))
Corrupted_apply(ch, st) == DoCp(ch, DoRm(ch, st))
Appeared_apply(ch, st) == DoRm(ch, st)
RemovedLost_apply(ch, st) == DoDel(ch, st)

---------------------------------------------------------------------------
(* dintact.py: find_moveds.  The buckets are keyed by payload; a sub-Index  *)
(* key compares structurally (Index.__eq__).                                *)
removeds(changes, i) == SelectSeq(changes, LAMBDA ch : ch.kind = "Removed" /\ ch.index = i)
addeds(changes, i) == SelectSeq(changes, LAMBDA ch : ch.kind = "Added" /\ ch.index = i)
Keys(changes, kind) == {changes[n].index : n \in {m \in 1..Len(changes) : changes[m].kind = kind}}
\* the payloads for which a Moved is synthesized
Pairable(changes) ==
    {i \in Keys(changes, "Removed") \cap Keys(changes, "Added") :
        Len(removeds(changes, i)) = 1 /\ Len(addeds(changes, i)) = 1}

\* Change.__eq__: two changes are equal when their type and name are
ChangeEq(a, b) == a.kind = b.kind /\ a.name = b.name
\* list.remove(x): drops the first element equal to x
RECURSIVE ListRemove(_, _)
ListRemove(s, x) ==
    IF s = <<>> THEN <<>>
    ELSE IF ChangeEq(Head(s), x) THEN Tail(s)
    ELSE <<Head(s)>> \o ListRemove(Tail(s), x)

\* the loop over set(removeds).intersection(addeds); orig is the list the
\* buckets were built from, cs the list being edited, ps the payloads left
RECURSIVE MovedsLoop(_, _, _)
MovedsLoop(orig, cs, ps) ==
    IF ps = <<>> THEN cs
    ELSE LET i == Head(ps)
             r == removeds(orig, i)[1]
             a == addeds(orig, i)[1]
         IN MovedsLoop(orig,
                       ListRemove(ListRemove(Append(cs, Moved(a.name, a.index, r)), r), a),
                       Tail(ps))

\* pairs whatever payload occurs on both sides, whatever its multiplicity
find_moveds_any(changes) ==
    MovedsLoop(changes, changes, SetToSeq(Keys(changes, "Removed") \cap Keys(changes, "Added")))

find_moveds(changes) == MovedsLoop(changes, changes, SetToSeq(Pairable(changes)))

(* os.renames(old, new) inside one tree: creates the parents of new, moves  *)
(* the subtree, then prunes the directories old leaves empty.               *)
Moveable(fs, old, new) ==
    /\ Exists(fs, old) /\ old # Root /\ new \in Paths /\ ~IsPrefix(old, new)
    /\ \A q \in Paths : (IsPrefix(q, new) /\ q # new) => fs[q].kind # "file"
    /\ \A q \in Under(old) : (new \o RelativeTo(q, old)) \in Paths
    /\ Exists(fs, new) => \/ IsFile(fs, old) /\ IsFile(fs, new)
                          \/ IsDir(fs, old) /\ IsDir(fs, new) /\ ListDir(fs, new) = {}
RECURSIVE Prune(_, _)
Prune(fs, d) ==
    IF d = Root \/ ~IsDir(fs, d) \/ ListDir(fs, d) # {} THEN fs
    ELSE Prune([fs EXCEPT ![d] = None], Parent(d))
renames(fs, old, new) ==
    IF ~Moveable(fs, old, new) THEN [ok |-> FALSE, fs |-> fs]
    ELSE LET moved == [q \in Paths |->
                          IF IsPrefix(new, q) /\ (old \o RelativeTo(q, new)) \in Paths
                              THEN fs[old \o RelativeTo(q, new)]
                          ELSE IF IsPrefix(new, q) \/ IsPrefix(old, q) THEN None
                          ELSE IF IsPrefix(q, new) THEN Dir
                          ELSE fs[q]]
         IN [ok |-> TRUE, fs |-> Prune(moved, Parent(old))]

\* renames(cold_dir / original.name, cold_dir / self.name)
DoRenames(ch, st) ==
    IF ~st.ok THEN st
    ELSE LET r == renames(st.cold, ch.original.name, ch.name)
         IN [st EXCEPT !.ok = r.ok, !.cold = r.fs, !.ops = Append(st.ops, [op |-> "renames", path |-> ch.original.name, to |-> ch.name])]

\* Moved.apply: rename cold(src) -> cold(dst); index[dst] = new; del index[src]
Moved_apply(ch, st) == DoDel(ch.original, DoSet(ch, DoRenames(ch, st)))

\* virtual dispatch on the class of the change (subclasses inherit apply)
apply(ch, st) ==
    CASE ch.kind \in {"AddedCopied", "ModifiedCopied"} -> AddedCopied_apply(ch, st)
      [] ch.kind \in {"Added", "ModifiedLost"} -> Added_apply(ch, st)
      [] ch.kind = "Lost" -> Lost_apply(ch, st)
      [] ch.kind \in {"Removed", "RemovedCorrupted"} -> Removed_apply(ch, st)
      [] ch.kind \in {"Modified", "ModifiedCorrupted", "AddedAppeared"} -> Modified_apply(ch, st)
      [] ch.kind = "Corrupted" -> Corrupted_apply(ch, st)
      [] ch.kind = "Appeared" -> Appeared_apply(ch, st)
      [] ch.kind = "RemovedLost" -> RemovedLost_apply(ch, st)
      [] ch.kind = "Moved" -> Moved_apply(ch, st)

---------------------------------------------------------------------------
(* State *)
VARIABLES
    hot,      \* the hot tree
    cold,     \* the cold tree (index.txt itself left out)
    index,    \* the in-memory cold index
    changes,  \* the change list still to be applied / the second walk's list
    pc,       \* "start", "walked", "collision", "failed", "rewalked", "recollision"
    post,     \* find_moveds has run over the list
    last,     \* the change applied by the latest Apply step
    ops,      \* the cp / rm / renames / index calls that apply made
    before,   \* hot, cold and index as they were when that apply started
    start,    \* hot, cold and index as they were when the session started
    emitted,  \* the list as walk_trees returned it
    disk,     \* the file cold_dir/index.txt
    steps,    \* how many operations have been made on the index / the
              \* position of a sync session in its current loop
    sess      \* what a sync session has prompted, confirmed, applied, stored

vars == <<hot, cold, index, changes, pc, post, last, ops, before, start, emitted, disk, steps, sess>>

\* cold_dir/index.txt does not exist
NoFile == [exists |-> FALSE]
NoSession == [asked |-> <<>>, actions |-> <<>>, applied |-> <<>>, stores |-> 0,
              lines |-> <<>>, meta |-> <<>>, disk0 |-> NoFile, raised |-> "none"]

NodeVals == {None, Dir} \cup {File(c) : c \in Contents}
\* a tree of the modelled shape; .gitignore, when present, is a regular file
Trees == {fs \in [Paths -> NodeVals] :
            /\ WellFormed(fs)
            /\ \A q \in Paths : q[Len(q)] = GITIGNORE => fs[q].kind # "dir"
            /\ \A f \in RootFiles : fs[<<f>>] = None}
EmptyTree == [q \in Paths |-> None]

\* Index.__init__ over the body lines m (path -> checksum) of an index.txt
RECURSIVE LoadLines(_, _, _)
LoadLines(m, S, i) ==
    IF S = {} THEN i
    ELSE LET k == CHOOSE k \in S : TRUE
         IN LoadLines(m, S \ {k}, SetItem(i, k, Str(m[k])).idx)
PrefixFree(S) == \A p \in S, q \in S : IsPrefix(p, q) => p = q
LoadedIndexes ==
    UNION {{LoadLines(m, S, EmptyIndex) : m \in [S -> Checksums]} :
               S \in {T \in SUBSET {q \in Paths : q[1] \notin RootFiles} :
                          PrefixFree(T)}}

NoChange == [kind |-> "none"]
Snapshot == [hot |-> hot, cold |-> cold, index |-> index]

Init ==
    /\ hot \in Trees
    /\ cold \in Trees
    /\ index \in LoadedIndexes
    /\ changes = <<>>
    /\ pc = "start"
    /\ post = FALSE
    /\ last = NoChange
    /\ ops = <<>>
    /\ before = Snapshot
    /\ start = Snapshot
    /\ emitted = <<>>
    /\ disk = NoFile
    /\ steps = 0
    /\ sess = NoSession

\* changes = walk_trees(PurePath(), index, hot_dir, cold_dir, pbar)
WalkTrees ==
    /\ pc = "start"
    /\ LET r == walk_trees(Root, index, hot, cold)
       IN /\ pc' = IF r.ok THEN "walked" ELSE "collision"
          /\ changes' = IF r.ok THEN r.changes ELSE <<>>
          /\ emitted' = IF r.ok THEN r.changes ELSE <<>>
    /\ UNCHANGED <<hot, cold, index, post, last, ops, before, start, disk, steps, sess>>

\* find_moveds(changes), before anything is applied
FindMoveds ==
    /\ pc = "walked"
    /\ ~post
    /\ last = NoChange
    /\ changes' = find_moveds(changes)
    /\ post' = TRUE
    /\ UNCHANGED <<hot, cold, index, pc, last, ops, before, start, emitted, disk, steps, sess>>

\* change.apply(hot_dir, cold_dir, index, pbar) for the next change of the list
Apply ==
    /\ pc = "walked"
    /\ changes # <<>>
    /\ LET st == apply(Head(changes), [ok |-> TRUE, hot |-> hot, cold |-> cold, index |-> index, ops |-> <<>>])
       IN /\ hot' = st.hot
          /\ cold' = st.cold
          /\ index' = st.index
          /\ ops' = st.ops
          /\ pc' = IF st.ok THEN "walked" ELSE "failed"
    /\ last' = Head(changes)
    /\ before' = Snapshot
    /\ changes' = Tail(changes)
    /\ UNCHANGED <<post, start, emitted, disk, steps, sess>>

\* a second walk_trees over the state the applied changes left
Rewalk ==
    /\ pc = "walked"
    /\ changes = <<>>
    /\ LET r == walk_trees(Root, index, hot, cold)
       IN /\ pc' = IF r.ok THEN "rewalked" ELSE "recollision"
          /\ changes' = IF r.ok THEN r.changes ELSE <<>>
    /\ UNCHANGED <<hot, cold, index, post, last, ops, before, start, emitted, disk, steps, sess>>

Next == WalkTrees \/ FindMoveds \/ Apply \/ Rewalk

Spec == Init /\ [][Next]_vars

---------------------------------------------------------------------------
(* find_moveds over change lists of every shape: up to MaxChanges entries   *)
(* of one directory, each reported by one change.                           *)
MaxChanges == 4
EntryNames == <<"a", "b", "c", "d", "e", "f">>
MovedKinds == {"Removed", "Added", "RemovedCorrupted", "ModifiedLost"}
\* a file checksum and the sub-Index of a directory holding one file
MovedPayloads == {Str(0), Idx(SetItem(EmptyIndex, <<"x">>, Str(0)).idx)}
\* the change of kind k and payload v at entry n
EntryChange(n, k, v) == Change(k, <<EntryNames[n]>>, v, 0)
RECURSIVE ListOf(_, _)
ListOf(f, n) ==
    IF n > MaxChanges THEN <<>>
    ELSE (IF f[n] = Missing THEN <<>> ELSE <<EntryChange(n, f[n].kind, f[n].index)>>) \o ListOf(f, n + 1)
ChangeLists ==
    {ListOf(f, 1) : f \in [1..MaxChanges -> {Missing} \cup [kind : MovedKinds, index : MovedPayloads]]}

InitMoveds ==
    /\ hot = EmptyTree
    /\ cold = EmptyTree
    /\ index = EmptyIndex
    /\ changes \in ChangeLists
    /\ emitted = changes
    /\ pc = "walked"
    /\ post = FALSE
    /\ last = NoChange
    /\ ops = <<>>
    /\ before = Snapshot
    /\ start = Snapshot
    /\ disk = NoFile
    /\ steps = 0
    /\ sess = NoSession

NextMoveds == FindMoveds

SpecMoveds == InitMoveds /\ [][NextMoveds]_vars

---------------------------------------------------------------------------
(* index.py: index.txt as text.  A file is a sequence of lines and a line   *)
(* a sequence of characters; a name without blanks counts as one character, *)
(* a checksum too.  The header line is the prefix and its JSON payload.      *)
AllNames == TopNames \cup SubNames \cup RootFiles \cup {"a", "x", "x "}
Chars(n) == IF n = "x " THEN <<"x", " ">> ELSE <<n>>
Unchars(cs) == IF \E n \in AllNames : Chars(n) = cs THEN CHOOSE n \in AllNames : Chars(n) = cs ELSE cs

\* PurePath.as_posix()
RECURSIVE AsPosix(_)
AsPosix(k) ==
    IF Len(k) = 0 THEN <<".">>
    ELSE IF Len(k) = 1 THEN Chars(k[1])
    ELSE Chars(k[1]) \o <<"/">> \o AsPosix(Tail(k))

\* PurePath(name).parts: the components between slashes, empty ones dropped
RECURSIVE Parts(_, _)
Parts(cs, cur) ==
    IF cs = <<>> THEN (IF cur = <<>> THEN <<>> ELSE <<Unchars(cur)>>)
    ELSE IF Head(cs) = "/" THEN (IF cur = <<>> THEN <<>> ELSE <<Unchars(cur)>>) \o Parts(Tail(cs), <<>>)
    ELSE Parts(Tail(cs), Append(cur, Head(cs)))

\* Index.__iter__: the paths of the file leaves, directories first
RECURSIVE IterKeys(_)
IterKeys(I) ==
    LET ds == SetToSeq(DOMAIN I.dirs)
        fs == SetToSeq(DOMAIN I.files)
        sub(n) == IterKeys(I.dirs[ds[n]])
    IN Concat([n \in 1..Len(ds) |-> [m \in 1..Len(sub(n)) |-> <<ds[n]>> \o sub(n)[m]]])
       \o [n \in 1..Len(fs) |-> <<fs[n]>>]

HEADER == "# dintact index "
DefaultMeta == [version |-> 1, algorithm |-> "XXH128", coding |-> "utf8"]
\* self.meta['created_at'] = now
Stamped(meta) ==
    [f \in DOMAIN meta \cup {"created_at"} |-> IF f = "created_at" THEN "now" ELSE meta[f]]
\* a checksum as the text of an index line, and back
Digits(v) == ToString(v)
Undigits(t) == IF \E c \in Checksums : Digits(c) = t THEN CHOOSE c \in Checksums : Digits(c) = t ELSE t
\* f"{v}  {name.as_posix()}\n"
IndexLine(v, k) == <<Digits(v), " ", " ">> \o AsPosix(k)
\* the lines store() writes, in order
StoreLines(I, meta) ==
    <<<<HEADER, Stamped(meta)>>>>
    \o [n \in 1..Len(IterKeys(I)) |-> IndexLine(GetItem(I, IterKeys(I)[n]).str, IterKeys(I)[n])]
TextFile(lines) == [exists |-> TRUE, lines |-> lines]
\* store() run to its end
store(I, meta) == TextFile(StoreLines(I, meta))

\* str.strip()
RECURSIVE LStrip(_)
LStrip(l) == IF l # <<>> /\ Head(l) = " " THEN LStrip(Tail(l)) ELSE l
RECURSIVE RStrip(_)
RStrip(l) == IF l # <<>> /\ l[Len(l)] = " " THEN RStrip(SubSeq(l, 1, Len(l) - 1)) ELSE l
Strip(l) == RStrip(LStrip(l))
\* where split("  ", 1) cuts: the first two adjacent blanks, 0 if none
FirstDouble(l) ==
    LET at == {i \in 1..(Len(l) - 1) : l[i] = " " /\ l[i + 1] = " "}
    IN IF at = {} THEN 0 ELSE CHOOSE i \in at : \A j \in at : i <= j

\* the loop over the body lines of Index.__init__
RECURSIVE LoadBody(_, _)
LoadBody(lines, I) ==
    IF lines = <<>> THEN [ok |-> TRUE, idx |-> I, raised |-> "none"]
    ELSE LET line == Head(lines)
             t == Strip(line)
             d == FirstDouble(t)
         IN IF line = <<>> \/ Head(line) \in {"#", HEADER} THEN LoadBody(Tail(lines), I)
            ELSE IF t = <<>> THEN LoadBody(Tail(lines), I)
            ELSE IF d = 0 THEN [ok |-> FALSE, idx |-> I, raised |-> "ValueError"]
            ELSE LET checksum == SubSeq(t, 1, d - 1)
                     name == SubSeq(t, d + 2, Len(t))
                     r == SetItem(I, Parts(name, <<>>),
                                  Str(IF Len(checksum) = 1 THEN Undigits(checksum[1]) ELSE checksum))
                 IN IF r.ok THEN LoadBody(Tail(lines), r.idx)
                    ELSE [ok |-> FALSE, idx |-> r.idx, raised |-> "SetError"]

\* accepts a header of any coding
Load_anycoding(file, coding) ==
    IF ~file.exists
    THEN [ok |-> TRUE, idx |-> EmptyIndex, meta |-> DefaultMeta, raised |-> "none", file |-> TextFile(<<>>)]
    ELSE LET header_line == IF file.lines = <<>> THEN <<>> ELSE Head(file.lines)
             fail(e) == [ok |-> FALSE, idx |-> EmptyIndex, meta |-> DefaultMeta, raised |-> e, file |-> file]
         IN IF header_line = <<>> \/ Head(header_line) # HEADER THEN fail("header missing")
            ELSE LET meta == header_line[2]
                 IN IF "text" \in DOMAIN meta THEN fail("JSONDecodeError")
                    ELSE IF "version" \notin DOMAIN meta THEN fail("KeyError")
                    ELSE IF meta.version = 1 /\ "algorithm" \notin DOMAIN meta THEN fail("KeyError")
                    ELSE IF meta.version = 1 /\ meta.algorithm = "XXH128" /\ "coding" \notin DOMAIN meta
                         THEN fail("KeyError")
                    ELSE IF meta.version # 1 \/ meta.algorithm # "XXH128"
                         THEN fail("cannot load")
                    ELSE LET b == LoadBody(Tail(file.lines), EmptyIndex)
                         IN [ok |-> b.ok, idx |-> b.idx, meta |-> meta, raised |-> b.raised, file |-> file]

\* Index(cold_dir, coding): [ok |-> constructed, idx, meta, raised, file |-> index.txt afterwards]
Load(file, coding) ==
    IF ~file.exists
    THEN [ok |-> TRUE, idx |-> EmptyIndex, meta |-> DefaultMeta, raised |-> "none", file |-> TextFile(<<>>)]
    ELSE LET header_line == IF file.lines = <<>> THEN <<>> ELSE Head(file.lines)
             fail(e) == [ok |-> FALSE, idx |-> EmptyIndex, meta |-> DefaultMeta, raised |-> e, file |-> file]
         IN IF header_line = <<>> \/ Head(header_line) # HEADER THEN fail("header missing")
            ELSE LET meta == header_line[2]
                 IN IF "text" \in DOMAIN meta THEN fail("JSONDecodeError")
                    ELSE IF "version" \notin DOMAIN meta THEN fail("KeyError")
                    ELSE IF meta.version = 1 /\ "algorithm" \notin DOMAIN meta THEN fail("KeyError")
                    ELSE IF meta.version = 1 /\ meta.algorithm = "XXH128" /\ "coding" \notin DOMAIN meta
                         THEN fail("KeyError")
                    ELSE IF meta.version # 1 \/ meta.algorithm # "XXH128" \/ meta.coding # coding
                         THEN fail("cannot load")
                    ELSE LET b == LoadBody(Tail(file.lines), EmptyIndex)
                         IN [ok |-> b.ok, idx |-> b.idx, meta |-> meta, raised |-> b.raised, file |-> file]

---------------------------------------------------------------------------
(* The Index as a mapping: any sequence of up to MaxOps __setitem__ and     *)
(* __delitem__ calls on an index that starts empty or loaded.               *)
MaxOps == 2
\* component names; the last one ends in a space
IndexNames == {"a", "x", "x "}
\* the keys handed to the index: the empty path, the single names, and
\* the paths of two plain names
IndexKeys ==
    {<<>>} \cup {<<n>> : n \in IndexNames}
           \cup {<<n, m>> : n \in IndexNames \ {"x "}, m \in IndexNames \ {"x "}}
\* values handed to __setitem__: checksums, an empty and a one-file
\* sub-Index, and a value that is neither str nor Index
IndexValues ==
    {Str(0), Str(1), Idx(EmptyIndex), Idx(SetItem(EmptyIndex, <<"x">>, Str(0)).idx), Missing}

\* the indexes a sequence starts from: Index(), and two loaded ones
IndexSeeds ==
    {EmptyIndex,
     LoadLines([k \in {<<"a", "x">>} |-> 0], {<<"a", "x">>}, EmptyIndex),
     LoadLines([k \in {<<"x">>, <<"a", "x">>, <<"a", "a">>} |-> Len(k) - 1],
               {<<"x">>, <<"a", "x">>, <<"a", "a">>}, EmptyIndex)}

\* the exception __delitem__ raises, "none" when it returns
RECURSIVE DelRaises(_, _)
DelRaises(I, k) ==
    IF Len(k) = 0 THEN "ValueError"
    ELSE IF Len(k) = 1 THEN
        IF k[1] \in DOMAIN I.files \/ k[1] \in DOMAIN I.dirs THEN "none" ELSE "KeyError"
    ELSE IF k[1] \notin DOMAIN I.dirs THEN "KeyError"
    ELSE DelRaises(I.dirs[k[1]], Tail(k))

InitIndex ==
    /\ hot = EmptyTree
    /\ cold = EmptyTree
    /\ index \in IndexSeeds
    /\ changes = <<>>
    /\ emitted = <<>>
    /\ pc = "index"
    /\ post = FALSE
    /\ last = NoChange
    /\ ops = <<>>
    /\ before = Snapshot
    /\ start = Snapshot
    /\ disk = NoFile
    /\ steps = 0
    /\ sess = NoSession

\* index[k] = v
IndexSet ==
    /\ pc = "index"
    /\ last.kind \in {"none", "set", "del"}
    /\ steps < MaxOps
    /\ \E k \in IndexKeys, v \in IndexValues :
          LET r == SetItem(index, k, v)
          IN /\ index' = r.idx
             /\ last' = [kind |-> "set", key |-> k, value |-> v, ok |-> r.ok, raised |-> "none"]
    /\ before' = Snapshot
    /\ steps' = steps + 1
    /\ UNCHANGED <<hot, cold, changes, pc, post, ops, start, emitted, disk, sess>>

\* del index[k]
IndexDel ==
    /\ pc = "index"
    /\ last.kind \in {"none", "set", "del"}
    /\ steps < MaxOps
    /\ \E k \in IndexKeys :
          LET r == DelItem(index, k)
          IN /\ index' = r.idx
             /\ last' = [kind |-> "del", key |-> k, value |-> Missing, ok |-> r.ok,
                         raised |-> DelRaises(index, k)]
    /\ before' = Snapshot
    /\ steps' = steps + 1
    /\ UNCHANGED <<hot, cold, changes, pc, post, ops, start, emitted, disk, sess>>

\* index.store() on an index backed by cold_dir/index.txt
IndexStore ==
    /\ pc = "index"
    /\ last.kind \in {"none", "set", "del"}
    /\ disk' = store(index, DefaultMeta)
    /\ last' = [kind |-> "store"]
    /\ before' = Snapshot
    /\ UNCHANGED <<hot, cold, index, changes, pc, post, ops, start, emitted, steps, sess>>

\* Index(cold_dir) over the file just stored
IndexLoad ==
    /\ pc = "index"
    /\ last.kind = "store"
    /\ LET r == Load(disk, "utf8")
       IN /\ index' = r.idx
          /\ last' = [kind |-> "load", ok |-> r.ok, raised |-> r.raised]
          /\ disk' = r.file
    /\ before' = Snapshot
    /\ UNCHANGED <<hot, cold, changes, pc, post, ops, start, emitted, steps, sess>>

NextIndex == IndexSet \/ IndexDel \/ IndexStore \/ IndexLoad

SpecIndex == InitIndex /\ [][NextIndex]_vars

---------------------------------------------------------------------------
(* Index(cold_dir, coding) over index.txt files of every header *)
Codings == {"utf8", "ascii"}
\* what follows the header prefix: a JSON object, or text that is no JSON
JsonObjects ==
    [version : {1, 2}, algorithm : {"XXH128", "XXH64"}, coding : Codings]
    \cup [version : {1}, algorithm : {"XXH128"}]
    \cup [version : {1}, coding : Codings]
    \cup [algorithm : {"XXH128"}, coding : Codings]
HeaderLines ==
    {<<HEADER, j>> : j \in JsonObjects} \cup {<<HEADER, [text |-> "{"]>>}
    \cup {<<"# dintact">>, IndexLine(0, <<"a">>)}
\* bodies: well-formed ones, one with a line that has no separator, and
\* one whose lines name a as a file and as a directory
Bodies ==
    {<<>>,
     <<IndexLine(0, <<"a">>)>>,
     <<IndexLine(1, <<"a", "x">>), <<"#", "comment">>, <<" ">>, IndexLine(0, <<"x">>)>>,
     <<<<"0", " ", "a">>>>,
     <<IndexLine(0, <<"a">>), IndexLine(1, <<"a", "x">>)>>}
IndexFiles == {TextFile(<<>>)} \cup {TextFile(<<h>> \o b) : h \in HeaderLines, b \in Bodies}

InitLoad ==
    /\ hot = EmptyTree
    /\ cold = EmptyTree
    /\ index = EmptyIndex
    /\ changes = <<>>
    /\ emitted = <<>>
    /\ pc = "load"
    /\ post = FALSE
    /\ \E c \in Codings : last = [kind |-> "request", coding |-> c]
    /\ ops = <<>>
    /\ before = Snapshot
    /\ start = Snapshot
    /\ disk \in IndexFiles
    /\ steps = 0
    /\ sess = NoSession

\* Index(cold_dir, coding)
LoadIndex ==
    /\ pc = "load"
    /\ LET r == Load(disk, last.coding)
       IN /\ index' = r.idx
          /\ disk' = r.file
          /\ last' = [kind |-> "load", coding |-> last.coding, ok |-> r.ok,
                      raised |-> r.raised, meta |-> r.meta]
    /\ pc' = "loaded"
    /\ UNCHANGED <<hot, cold, changes, post, ops, before, start, emitted, steps, sess>>

NextLoad == LoadIndex

SpecLoad == InitLoad /\ [][NextLoad]_vars

---------------------------------------------------------------------------
(* dintact.py: a sync session, prompt by prompt and write by write.  Every  *)
(* state of it is a point at which the process can be interrupted.          *)
\* the component names in code point order, as PurePath compares them
NameOrder == <<GITIGNORE, "a", INDEX_FILENAME, "p.jpg", "x", "x ">>
Rank(n) == CHOOSE i \in 1..Len(NameOrder) : NameOrder[i] = n
RECURSIVE PathLess(_, _)
PathLess(p, q) ==
    IF p = <<>> THEN q # <<>>
    ELSE IF q = <<>> THEN FALSE
    ELSE IF p[1] = q[1] THEN PathLess(Tail(p), Tail(q))
    ELSE Rank(p[1]) < Rank(q[1])

\* list.sort(key=attrgetter('name')): a stable sort
InsertByName(s, x) ==
    LET n == Cardinality({i \in 1..Len(s) : ~PathLess(x.name, s[i].name)})
    IN SubSeq(s, 1, n) \o <<x>> \o SubSeq(s, n + 1, Len(s))
RECURSIVE SortByName(_)
SortByName(s) ==
    IF s = <<>> THEN <<>> ELSE InsertByName(SortByName(SubSeq(s, 1, Len(s) - 1)), s[Len(s)])

\* change.name.suffix.lower()
Suffix(p) ==
    LET n == p[Len(p)]
    IN CASE n = "p.jpg" -> ".jpg"
         [] n = INDEX_FILENAME -> ".txt"
         [] OTHER -> ""

\* drops the Appeared of the index file itself
ignore_index(cs) ==
    LET hits == {i \in 1..Len(cs) : cs[i].name = <<INDEX_FILENAME>> /\ cs[i].kind = "Appeared"}
    IN IF hits = {} THEN cs
       ELSE LET i == CHOOSE i \in hits : \A j \in hits : i <= j
            IN SubSeq(cs, 1, i - 1) \o SubSeq(cs, i + 1, Len(cs))

\* cold_dir/index.txt as an entry of the cold tree; its bytes are unlike
\* those of any hot file
IndexNode(file) == IF file.exists THEN File(0) ELSE None
\* index.txt after an apply that has removed it or copied a hot file over it
IndexFileAfter(file, was, now) ==
    IF now = was THEN file
    ELSE IF now = None THEN NoFile
    ELSE TextFile(<<<<"hot", Digits(now.data)>>>>)

\* the trees of a session: a/ absent, empty or holding x, and a picture
SyncTrees == {fs \in [Paths -> NodeVals] :
                /\ WellFormed(fs)
                /\ fs[<<"a">>].kind # "file"
                /\ fs[<<"a", GITIGNORE>>] = None
                /\ fs[<<"a", "x">>] \in {None, File(1), File(2)}
                /\ fs[<<"p.jpg">>] \in {None, File(1)}
                /\ fs[<<INDEX_FILENAME>>] = None}
SyncIndexes == {LoadLines(m, DOMAIN m, EmptyIndex) :
                   m \in {<<>>, <<"a", "x">> :> Hash(1),
                          (<<"a", "x">> :> Hash(1)) @@ (<<"p.jpg">> :> Hash(1))}}
\* index.txt before the session: absent, empty, or stored by an earlier one
SyncDisks == {NoFile, TextFile(<<>>)} \cup {store(I, DefaultMeta) : I \in SyncIndexes}

InitSync ==
    /\ hot \in {[t EXCEPT ![<<INDEX_FILENAME>>] = n] : t \in SyncTrees, n \in {None, File(1)}}
    /\ disk \in SyncDisks
    /\ cold \in {[t EXCEPT ![<<INDEX_FILENAME>>] = IndexNode(disk)] : t \in SyncTrees}
    /\ index = EmptyIndex
    /\ changes = <<>>
    /\ pc = "sync"
    /\ post = FALSE
    /\ last = NoChange
    /\ ops = <<>>
    /\ before = Snapshot
    /\ start = Snapshot
    /\ emitted = <<>>
    /\ steps = 0
    /\ sess = [NoSession EXCEPT !.disk0 = disk]

\* index = Index(cold_dir)
SyncLoad ==
    /\ pc = "sync"
    /\ LET r == Load(disk, "utf8")
       IN /\ disk' = r.file
          /\ cold' = [cold EXCEPT ![<<INDEX_FILENAME>>] = IndexNode(r.file)]
          /\ index' = r.idx
          /\ start' = [hot |-> hot, cold |-> cold, index |-> r.idx]
          /\ pc' = IF r.ok THEN "detect" ELSE "raised"
          /\ sess' = [sess EXCEPT !.meta = r.meta, !.raised = IF r.ok THEN "none" ELSE "Index"]
    /\ UNCHANGED <<hot, changes, post, last, ops, before, emitted, steps>>

\* walk_trees, ignore_index, find_moveds and the sort; find_deduplications
\* only extends the text of a prompt
SyncDetect ==
    /\ pc = "detect"
    /\ LET r == walk_trees(Root, index, hot, cold)
       IN /\ pc' = IF r.ok THEN "ask" ELSE "raised"
          /\ emitted' = IF r.ok THEN r.changes ELSE <<>>
          /\ changes' = IF r.ok THEN SortByName(find_moveds(ignore_index(r.changes))) ELSE <<>>
          /\ sess' = [sess EXCEPT !.raised = IF r.ok THEN "none" ELSE "walk_trees"]
    /\ post' = TRUE
    /\ steps' = 0
    /\ UNCHANGED <<hot, cold, index, last, ops, before, start, disk>>

\* one turn of the confirmation loop
SyncAsk ==
    /\ pc = "ask"
    /\ steps < Len(changes)
    /\ LET change == changes[steps + 1]
       IN IF Suffix(change.name) \in {".jpg"}
          THEN sess' = sess
          ELSE \E answer \in BOOLEAN :
                  sess' = [sess EXCEPT !.asked = Append(@, change),
                                       !.actions = IF answer THEN Append(@, change) ELSE @]
    /\ steps' = steps + 1
    /\ UNCHANGED <<hot, cold, index, changes, pc, post, last, ops, before, start, emitted, disk>>

\* yesno(f"Commence {len(actions)} actions?", False)
SyncCommence ==
    /\ pc = "ask"
    /\ steps = Len(changes)
    /\ \E answer \in BOOLEAN : pc' = IF answer THEN "apply" ELSE "aborted"
    /\ steps' = 0
    /\ UNCHANGED <<hot, cold, index, changes, post, last, ops, before, start, emitted, disk, sess>>

\* change.apply(args.hot_dir, args.cold_dir, index, pbar) for the next action
SyncApply ==
    /\ pc = "apply"
    /\ steps < Len(sess.actions)
    /\ LET change == sess.actions[steps + 1]
           st == apply(change, [ok |-> TRUE, hot |-> hot, cold |-> cold, index |-> index, ops |-> <<>>])
       IN /\ hot' = st.hot
          /\ cold' = st.cold
          /\ index' = st.index
          /\ ops' = st.ops
          /\ disk' = IndexFileAfter(disk, cold[<<INDEX_FILENAME>>], st.cold[<<INDEX_FILENAME>>])
          /\ pc' = IF st.ok THEN "apply" ELSE "raised"
          /\ last' = change
          /\ sess' = [sess EXCEPT !.applied = Append(@, change),
                                  !.raised = IF st.ok THEN "none" ELSE "apply"]
    /\ before' = Snapshot
    /\ steps' = steps + 1
    /\ UNCHANGED <<changes, post, start, emitted>>

\* index.store(): created_at is set and index.txt opened for writing
SyncStoreOpen ==
    /\ pc = "apply"
    /\ steps = Len(sess.actions)
    /\ disk' = TextFile(<<>>)
    /\ cold' = [cold EXCEPT ![<<INDEX_FILENAME>>] = IndexNode(TextFile(<<>>))]
    /\ sess' = [sess EXCEPT !.stores = @ + 1, !.meta = Stamped(@),
                            !.lines = StoreLines(index, sess.meta)]
    /\ pc' = "store"
    /\ steps' = 0
    /\ UNCHANGED <<hot, index, changes, post, last, ops, before, start, emitted>>

\* index.store(): the next file.write; the file is closed after the last
SyncStoreWrite ==
    /\ pc = "store"
    /\ steps < Len(sess.lines)
    /\ disk' = TextFile(Append(disk.lines, sess.lines[steps + 1]))
    /\ steps' = steps + 1
    /\ pc' = IF steps + 1 = Len(sess.lines) THEN "done" ELSE "store"
    /\ UNCHANGED <<hot, cold, index, changes, post, last, ops, before, start, emitted, sess>>

NextSync ==
    SyncLoad \/ SyncDetect \/ SyncAsk \/ SyncCommence \/ SyncApply \/ SyncStoreOpen \/ SyncStoreWrite

SpecSync == InitSync /\ [][NextSync]_vars

---------------------------------------------------------------------------
(* dintact.py: check *)
\* the two loops of check and its verdict:
\* [ok |-> returned, fail_count, out |-> the verdict line and its number,
\*  err |-> the paths reported on stderr, by message]
check(idx, cold_dir) ==
    LET keys == IterKeys(idx)
        failed == {n \in 1..Len(keys) : GetItem(idx, keys[n]).str # hash_file(cold_dir, keys[n])}
        w == walk(cold_dir, Root, <<>>)
        missing == {f \in w.files : ~Contains(idx, f)}
        fail_count == Cardinality(failed) + Cardinality(missing)
        err == [failed |-> {keys[n] : n \in failed}, missing |-> missing]
    IN IF ~w.ok THEN [ok |-> FALSE, fail_count |-> 0, out |-> <<>>, err |-> err]
       ELSE [ok |-> TRUE, fail_count |-> fail_count, err |-> err,
             out |-> IF fail_count = 0 THEN <<"OK: Data is intact!">>
                     ELSE <<"FAIL: There were N failures!", fail_count>>]

\* a cold tree with the index.txt an earlier session has stored, or none
CheckDisks == {NoFile} \cup {store(I, DefaultMeta) : I \in LoadedIndexes}
InitCheck ==
    /\ hot = EmptyTree
    /\ disk \in CheckDisks
    /\ \E t \in Trees : cold = [t EXCEPT ![<<INDEX_FILENAME>>] = IndexNode(disk)]
    /\ index = EmptyIndex
    /\ changes = <<>>
    /\ pc = "check"
    /\ post = FALSE
    /\ last = NoChange
    /\ ops = <<>>
    /\ before = Snapshot
    /\ start = Snapshot
    /\ emitted = <<>>
    /\ steps = 0
    /\ sess = NoSession

\* the exit status of the process: parsed_args.func(parsed_args) is the
\* last statement of __main__ and its value is dropped, so the status is 0
\* when the subcommand returns and 1 when an exception escapes
ExitStatus(returned) == IF returned THEN 0 ELSE 1

\* index = Index(cold_dir)
CheckLoad ==
    /\ pc = "check"
    /\ LET r == Load(disk, "utf8")
       IN /\ pc' = IF r.ok THEN "verify" ELSE "raised"
          /\ disk' = r.file
          /\ cold' = [cold EXCEPT ![<<INDEX_FILENAME>>] = IndexNode(r.file)]
          /\ index' = r.idx
          /\ last' = IF r.ok THEN last
                     ELSE [kind |-> "check", fail_count |-> 0, out |-> <<>>,
                           err |-> [failed |-> {}, missing |-> {}], exit |-> ExitStatus(FALSE)]
    /\ UNCHANGED <<hot, changes, post, ops, before, start, emitted, steps, sess>>

\* the verification loop, the completeness loop and the verdict; then
\* __main__ ends
CheckVerify ==
    /\ pc = "verify"
    /\ LET r == check(index, cold)
       IN /\ pc' = IF r.ok THEN "checked" ELSE "raised"
          /\ last' = [kind |-> "check", fail_count |-> r.fail_count, out |-> r.out,
                       err |-> r.err, exit |-> ExitStatus(r.ok)]
    /\ UNCHANGED <<hot, cold, index, changes, post, ops, before, start, emitted, disk, steps, sess>>

NextCheck == CheckLoad \/ CheckVerify

SpecCheck == InitCheck /\ [][NextCheck]_vars

---------------------------------------------------------------------------
(* utils.py: slurp, hash_file and hash_compare_files over byte streams.     *)
(* A stream is a sequence of bytes; a reader delivers it as chunks.         *)
CHUNK_SIZE == 2
MaxLen == 3
Bytes == {0, 1}
Streams == UNION {[1..n -> Bytes] : n \in 0..MaxLen}
\* None, the filler of zip_longest: no chunk holds a negative byte
NoChunk == <<-1>>

\* the chunk sequences f.read(chunk_size) can deliver for a stream: every
\* read returns at least one byte and at most chunk_size, until the end
RECURSIVE Reads(_)
Reads(s) ==
    IF s = <<>> THEN {<<>>}
    ELSE UNION {{<<SubSeq(s, 1, n)>> \o r : r \in Reads(SubSeq(s, n + 1, Len(s)))} :
                   n \in 1..(IF Len(s) < CHUNK_SIZE THEN Len(s) ELSE CHUNK_SIZE)}
\* what a buffered reader delivers: full chunks, then the rest
FullReads(s) ==
    IF Len(s) <= CHUNK_SIZE THEN (IF s = <<>> THEN <<>> ELSE <<s>>)
    ELSE CHOOSE r \in Reads(s) : \A i \in 1..(Len(r) - 1) : Len(r[i]) = CHUNK_SIZE

\* xxh3_128: update appends to what has been fed, hexdigest abstracts it
\* to a digest with collisions
xxh_update(x, chunk) == x \o chunk
RECURSIVE Fed(_)
Fed(x) == IF x = <<>> THEN 0 ELSE 2 * Fed(SubSeq(x, 1, Len(x) - 1)) + x[Len(x)] + 1
xxh_hexdigest(x) == Hash(Fed(x))

\* hash_file over the chunks slurp yields
RECURSIVE hash_chunks(_, _)
hash_chunks(x, chunks) ==
    IF chunks = <<>> THEN xxh_hexdigest(x)
    ELSE hash_chunks(xxh_update(x, Head(chunks)), Tail(chunks))

\* pairs the chunks only as far as the shorter stream goes
zip_shortest(as, bs) ==
    [i \in 1..(IF Len(as) < Len(bs) THEN Len(as) ELSE Len(bs)) |-> <<as[i], bs[i]>>]
\* itertools.zip_longest(slurp(a), slurp(b))
zip_longest(as, bs) ==
    [i \in 1..(IF Len(as) < Len(bs) THEN Len(bs) ELSE Len(as)) |->
        <<IF i <= Len(as) THEN as[i] ELSE NoChunk, IF i <= Len(bs) THEN bs[i] ELSE NoChunk>>]

\* the loop of hash_compare_files over the paired chunks
RECURSIVE CompareLoop(_, _, _, _)
CompareLoop(pairs, a_x, b_x, eq) ==
    IF pairs = <<>> THEN <<xxh_hexdigest(a_x), xxh_hexdigest(b_x), eq>>
    ELSE LET chunk == Head(pairs)
         IN CompareLoop(Tail(pairs),
                        xxh_update(a_x, IF chunk[1] = NoChunk THEN <<>> ELSE chunk[1]),
                        xxh_update(b_x, IF chunk[2] = NoChunk THEN <<>> ELSE chunk[2]),
                        eq /\ chunk[1] = chunk[2])
hash_compare_chunks(as, bs) == CompareLoop(zip_longest(as, bs), <<>>, <<>>, TRUE)

InitCompare ==
    /\ hot = EmptyTree
    /\ cold = EmptyTree
    /\ index = EmptyIndex
    /\ changes = <<>>
    /\ pc = "compare"
    /\ post = FALSE
    /\ \E a \in Streams, b \in Streams : \E as \in Reads(a), bs \in Reads(b) :
          last = [kind |-> "streams", a |-> as, b |-> bs]
    /\ ops = <<>>
    /\ before = Snapshot
    /\ start = Snapshot
    /\ emitted = <<>>
    /\ disk = NoFile
    /\ steps = 0
    /\ sess = NoSession

\* hash_compare_files(a_path, b_path, pbar)
Compare ==
    /\ pc = "compare"
    /\ pc' = "compared"
    /\ last' = [kind |-> "compared", a |-> last.a, b |-> last.b,
                result |-> hash_compare_chunks(last.a, last.b)]
    /\ UNCHANGED <<hot, cold, index, changes, post, ops, before, start, emitted, disk, steps, sess>>

NextCompare == Compare

SpecCompare == InitCompare /\ [][NextCompare]_vars

---------------------------------------------------------------------------
(* utils.py: is_relevant, walk and cp under a rule list.  A rule list is    *)
(* what the caller hands in: root_rules of the root or nothing, followed by *)
(* the rules of .gitignore files read so far.                               *)
MaxRules == 2
\* root_rules(path)
root_rules(path) == <<[root |-> path, pattern |-> INDEX_FILENAME, include |-> "yes"]>>
\* a line of a .gitignore of the root or of a/: a name, or ! and a name
RuleLines == [root : {Root, <<"a">>}, pattern : {INDEX_FILENAME, "x"}, include : {"yes", "no"}]
RuleLists ==
    UNION {{h \o t : h \in {<<>>, root_rules(Root)}, t \in [1..n -> RuleLines]} : n \in 0..MaxRules}

\* the trees walked: a picture, perhaps index.txt, perhaps a/ with a
\* .gitignore and an entry x that is a file or an empty directory
RuledTrees ==
    {[t EXCEPT ![<<INDEX_FILENAME>>] = n] :
        n \in {None, File(0)},
        t \in {fs \in [Paths -> NodeVals] :
                  /\ WellFormed(fs)
                  /\ fs[<<"a">>].kind # "file"
                  /\ fs[<<"a", GITIGNORE>>] \in {None, File(1), File(2)}
                  /\ fs[<<"a", "x">>] \in {None, File(1), Dir}
                  /\ fs[<<"p.jpg">>] = File(1)
                  /\ fs[<<INDEX_FILENAME>>] = None}}

InitWalk ==
    /\ hot \in RuledTrees
    /\ cold = EmptyTree
    /\ index = EmptyIndex
    /\ changes = <<>>
    /\ pc = "walk"
    /\ post = FALSE
    /\ \E rules \in RuleLists : last = [kind |-> "rules", rules |-> rules]
    /\ ops = <<>>
    /\ before = Snapshot
    /\ start = Snapshot
    /\ emitted = <<>>
    /\ disk = NoFile
    /\ steps = 0
    /\ sess = NoSession

\* is_relevant(p, rules) for every entry, walk(root, rules), and
\* cp(root/index.txt, target/index.txt, rules) into an empty target
Walk ==
    /\ pc = "walk"
    /\ pc' = "walked all"
    /\ last' = [kind |-> "walk", rules |-> last.rules,
                relevant |-> [p \in {q \in Paths : Exists(hot, q)} |->
                                 is_relevant(hot, p, last.rules, FALSE)],
                walk |-> walk(hot, Root, last.rules),
                cp |-> cp(hot, EmptyTree, <<INDEX_FILENAME>>, last.rules)]
    /\ UNCHANGED <<hot, cold, index, changes, post, ops, before, start, emitted, disk, steps, sess>>

NextWalk == Walk

SpecWalk == InitWalk /\ [][NextWalk]_vars

---------------------------------------------------------------------------
(* Properties of the tree diff.  They are stated over the session's start   *)
(* snapshot and the list walk_trees returned from it, in the state where    *)
(* walk_trees has just returned: start and emitted never change afterwards.  *)
Returned == pc = "walked" /\ ~post /\ last = NoChange
ChangesAt(p) == SelectSeq(emitted, LAMBDA ch : ch.name = p)
Directories == {Root} \cup Paths

\* the directories _compare_dirs is called on
RECURSIVE Compared(_)
Compared(d) ==
    \/ d = Root
    \/ /\ d \in Paths
       /\ Compared(Parent(d))
       /\ d \in RelevantChildren(start.hot, Parent(d)) \cap RelevantChildren(start.cold, Parent(d))
       /\ IsDir(start.hot, d) /\ IsDir(start.cold, d)

\* what a subtree hashes to: a checksum for a file; for a directory the
\* sub-Index with one leaf per regular file below it
RECURSIVE Digest(_, _)
Digest(fs, p) ==
    IF IsFile(fs, p) THEN Str(Hash(fs[p].data))
    ELSE LET sub == {q \in ListDir(fs, p) : IsFile(fs, q) \/ \E f \in Under(q) : IsFile(fs, f)}
             fname == {q[Len(q)] : q \in {r \in sub : IsFile(fs, r)}}
             dname == {q[Len(q)] : q \in {r \in sub : ~IsFile(fs, r)}}
         IN Idx([files |-> [n \in fname |-> Digest(fs, Append(p, n)).str],
                 dirs |-> [n \in dname |-> Digest(fs, Append(p, n)).idx]])
RECURSIVE ByteSize(_, _)
ByteSize(fs, p) ==
    IF IsFile(fs, p) THEN fs[p].data
    ELSE LET fsz == [q \in ListDir(fs, p) |-> ByteSize(fs, q)]
             RECURSIVE Sum(_)
             Sum(S) == IF S = {} THEN 0 ELSE LET q == CHOOSE q \in S : TRUE IN fsz[q] + Sum(S \ {q})
         IN Sum(ListDir(fs, p))

\* C1: applying every change walk_trees emitted, in order, leaves a state
\* on which a second walk_trees returns the empty list (no apply raises,
\* the second walk does not collide, and its list is empty).
C1_Convergence ==
    ~post => /\ pc # "failed"
             /\ pc # "recollision"
             /\ (pc = "rewalked" => changes = <<>>)

\* C2: a path that is a regular file in hot and in cold gets at most one
\* change, the one the file-case truth table names.
FileCaseKind(p) ==
    LET h == start.hot[p].data
        c == start.cold[p].data
        I == start.index
    IN IF h = c THEN
           IF ~Contains(I, p) THEN "AddedCopied"
           ELSE IF GetItem(I, p) # Str(Hash(c)) THEN "ModifiedCopied"
           ELSE "none"
       ELSE
           IF ~Contains(I, p) THEN "AddedAppeared"
           ELSE IF GetItem(I, p) = Str(Hash(c)) THEN "Modified"
           ELSE IF GetItem(I, p) = Str(Hash(h)) THEN "Corrupted"
           ELSE "ModifiedCorrupted"
C2_FileTruthTable ==
    Returned =>
        \A p \in Paths : (IsFile(start.hot, p) /\ IsFile(start.cold, p)) =>
            LET cs == ChangesAt(p)
            IN IF FileCaseKind(p) = "none" THEN cs = <<>>
               ELSE /\ Len(cs) = 1
                    /\ cs[1].kind = FileCaseKind(p)
                    /\ cs[1].kind # "Corrupted" => cs[1].index = Str(Hash(start.hot[p].data))
\* two files of one directory: one corrupted and modified, the other with
\* different bytes under colliding checksums (reported Modified)
C2_Witness ==
    /\ pc = "walked" /\ last = NoChange
    /\ \E p, q \in Paths :
        /\ p # q
        /\ IsFile(start.hot, p) /\ IsFile(start.cold, p)
        /\ IsFile(start.hot, q) /\ IsFile(start.cold, q)
        /\ Len(ChangesAt(p)) = 1 /\ ChangesAt(p)[1].kind = "ModifiedCorrupted"
        /\ start.hot[q].data # start.cold[q].data
        /\ Hash(start.hot[q].data) = Hash(start.cold[q].data)
        /\ Len(ChangesAt(q)) = 1 /\ ChangesAt(q)[1].kind = "Modified"

\* C3: a relevant child of a compared directory that exists in hot and not
\* in cold gets exactly one change: Added(h, sub, size) when h is not in
\* the index, Lost(h, size) when sub equals index[h], else ModifiedLost.
HotOnlyChange(h) ==
    LET sub == Digest(start.hot, h)
        size == ByteSize(start.hot, h)
    IN IF ~Contains(start.index, h) THEN Change("Added", h, sub, size)
       ELSE IF sub = GetItem(start.index, h) THEN Change("Lost", h, Missing, size)
       ELSE Change("ModifiedLost", h, sub, size)
C3_HotOnly ==
    Returned =>
        \A d \in Directories : Compared(d) =>
            \A h \in RelevantChildren(start.hot, d) : ~Exists(start.cold, h) =>
                ChangesAt(h) = <<HotOnlyChange(h)>>
\* a hot-only directory whose files hash to the recorded sub-index: Lost
C3_Witness ==
    /\ pc = "walked" /\ last = NoChange
    /\ \E h \in Paths :
        /\ IsDir(start.hot, h) /\ ~Exists(start.cold, h)
        /\ ChangesAt(h) = <<HotOnlyChange(h)>>
        /\ ChangesAt(h)[1].kind = "Lost"
        /\ IndexLen(GetItem(start.index, h).idx) = 2

\* C4: a relevant child of a compared directory that exists in cold and
\* not in hot gets exactly one change: Appeared(c) when c is not in the
\* index, Removed(c, index[c]) when the cold subtree hashes to index[c],
\* else RemovedCorrupted(c, index[c]).
ColdOnlyChange(c) ==
    IF ~Contains(start.index, c) THEN Change("Appeared", c, Missing, 0)
    ELSE IF Digest(start.cold, c) = GetItem(start.index, c)
         THEN Change("Removed", c, GetItem(start.index, c), 0)
         ELSE Change("RemovedCorrupted", c, GetItem(start.index, c), 0)
MissingBoth(p) == ~Exists(start.hot, p) /\ ~Exists(start.cold, p)
OutermostMissing(p) ==
    CHOOSE q \in Paths : /\ IsPrefix(q, p) /\ MissingBoth(q)
                         /\ \A r \in Paths : (IsPrefix(r, p) /\ MissingBoth(r)) => Len(q) <= Len(r)
C5_EveryGhostReported ==
    Returned =>
        \A p \in Paths : (Contains(start.index, p) /\ MissingBoth(p)) =>
            ChangesAt(OutermostMissing(p)) = <<Change("RemovedLost", OutermostMissing(p), Missing, 0)>>

\* C5 (amended): exactly one RemovedLost(i) per immediate index child i of a
\* compared directory that is in neither hot_children nor cold_children,
\* and no other RemovedLost; applying it never raises and removes i from
\* the index; when such changes are the whole list and cover every index
\* entry, the index ends empty.
IndexOnlyAt(d) ==
    LET sub_index == IF Contains(start.index, d) THEN GetItem(start.index, d) ELSE Missing
    IN (IndexChildren(d, sub_index) \ RelevantChildren(start.hot, d)) \ RelevantChildren(start.cold, d)
Leaves(I) == {p \in Paths : Contains(I, p) /\ IsStr(GetItem(I, p))}
C5_IndexOnly ==
    /\ Returned =>
         /\ \A d \in Directories : Compared(d) =>
               \A i \in IndexOnlyAt(d) : ChangesAt(i) = <<Change("RemovedLost", i, Missing, 0)>>
         /\ \A n \in 1..Len(emitted) : emitted[n].kind = "RemovedLost" =>
               /\ Compared(Parent(emitted[n].name))
               /\ emitted[n].name \in IndexOnlyAt(Parent(emitted[n].name))
    /\ last.kind = "RemovedLost" =>
         /\ pc # "failed"
         /\ ops = <<[op |-> "del", path |-> last.name]>>
         /\ Contains(before.index, last.name)
         /\ ~Contains(index, last.name)
    /\ ( /\ pc = "walked" /\ changes = <<>> /\ emitted # <<>>
         /\ \A n \in 1..Len(emitted) : emitted[n].kind = "RemovedLost"
         /\ \A p \in Leaves(start.index) : \E n \in 1..Len(emitted) : IsPrefix(emitted[n].name, p) )
       => index = EmptyIndex
\* two ghost entries of one compared directory, both applied: index empty
C5_Witness ==
    /\ pc = "walked" /\ changes = <<>> /\ Len(emitted) = 2
    /\ \A n \in 1..Len(emitted) : emitted[n].kind = "RemovedLost" /\ Len(emitted[n].name) = 2
    /\ IndexLen(start.index) = 2
    /\ index = EmptyIndex

\* C6: the returned list holds no two changes at one path and no change
\* at an ancestor of another change's path; every child of a compared
\* directory is in exactly one region, and a hot-only, cold-only or
\* index-only child is reported by one change at the child, none below.
FileKinds == {"AddedCopied", "ModifiedCopied", "Modified", "Corrupted", "ModifiedCorrupted", "AddedAppeared"}
HotOnlyKinds == {"Added", "Lost", "ModifiedLost"}
ColdOnlyKinds == {"Appeared", "Removed", "RemovedCorrupted"}
ChangesUnder(q) == SelectSeq(emitted, LAMBDA ch : IsPrefix(q, ch.name))
OneAtTop(q, kinds) ==
    /\ Len(ChangesUnder(q)) = 1
    /\ ChangesUnder(q)[1].name = q
    /\ ChangesUnder(q)[1].kind \in kinds
RegionOf(d, q) ==
    LET H == RelevantChildren(start.hot, d)
        C == RelevantChildren(start.cold, d)
    IN IF q \in H \ C THEN OneAtTop(q, HotOnlyKinds)
       ELSE IF q \in C \ H THEN OneAtTop(q, ColdOnlyKinds)
       ELSE IF q \in H \cap C THEN
            IF IsFile(start.hot, q)
            THEN ChangesUnder(q) = <<>> \/ OneAtTop(q, FileKinds)
            ELSE Compared(q) /\ ChangesAt(q) = <<>>
       ELSE OneAtTop(q, {"RemovedLost"})
C6_Outermost ==
    Returned =>
        /\ \A m, n \in 1..Len(emitted) : m # n => ~IsPrefix(emitted[m].name, emitted[n].name)
        /\ \A n \in 1..Len(emitted) : Compared(Parent(emitted[n].name))
        /\ \A d \in Directories : Compared(d) =>
              \A q \in RelevantChildren(start.hot, d) \cup RelevantChildren(start.cold, d)
                        \cup IndexOnlyAt(d) : RegionOf(d, q)
\* a directory of two files that is only in hot, reported by one Added
C6_Witness ==
    /\ pc = "walked" /\ last = NoChange
    /\ Len(emitted) = 1 /\ emitted[1].kind = "Added" /\ Len(emitted[1].name) = 1
    /\ Cardinality({f \in Under(emitted[1].name) : IsFile(start.hot, f)}) = 2

\* C7: a name that the diff sees in both hot and cold and whose kind
\* (file or directory) differs between hot and cold, or between the
\* filesystem and the index, makes walk_trees raise the collision error.
SeenInBoth(p) ==
    /\ is_relevant(start.hot, p, <<>>, FALSE) = "relevant"
    /\ is_relevant(start.cold, p, <<>>, FALSE) = "relevant"
KindMismatch(p) ==
    \/ IsFile(start.hot, p) # IsFile(start.cold, p)
    \/ /\ Contains(start.index, p)
       /\ \/ IsStr(GetItem(start.index, p)) # IsFile(start.hot, p)
          \/ IsStr(GetItem(start.index, p)) # IsFile(start.cold, p)
C7_CollisionFatal ==
    \A p \in Paths : (SeenInBoth(p) /\ KindMismatch(p)) => ~Returned

\* C8: each apply makes exactly the calls of the apply table, in order, at
\* the change's path; when it returns, the index and the cold tree differ
\* from their state before the apply exactly as the table says; the hot
\* tree is never modified.
ApplyTable(kind) ==
    CASE kind \in {"AddedCopied", "ModifiedCopied"} -> <<"set">>
      [] kind \in {"Added", "ModifiedLost"} -> <<"cp", "set">>
      [] kind = "Lost" -> <<"cp">>
      [] kind \in {"Modified", "ModifiedCorrupted", "AddedAppeared"} -> <<"rm", "cp", "set">>
      [] kind = "Corrupted" -> <<"rm", "cp">>
      [] kind \in {"Removed", "RemovedCorrupted"} -> <<"rm", "del">>
      [] kind = "Appeared" -> <<"rm">>
      [] kind = "RemovedLost" -> <<"del">>
Has(t, op) == \E n \in 1..Len(t) : t[n] = op
Apart(p, q) == ~IsPrefix(p, q) /\ ~IsPrefix(q, p)
C8_ApplyTable ==
    (last # NoChange /\ last.kind # "Moved") =>
        LET t == ApplyTable(last.kind)
            p == last.name
        IN /\ hot = before.hot
           /\ Len(ops) <= Len(t)
           /\ \A n \in 1..Len(ops) : ops[n] = [op |-> t[n], path |-> p]
           /\ pc # "failed" =>
                /\ Len(ops) = Len(t)
                /\ \A q \in Paths : Apart(p, q) =>
                      /\ cold[q] = before.cold[q]
                      /\ Contains(index, q) = Contains(before.index, q)
                      /\ GetItem(index, q) = GetItem(before.index, q)
                /\ IF Has(t, "set") THEN GetItem(index, p) = last.index
                   ELSE IF Has(t, "del") THEN ~Contains(index, p)
                   ELSE index = before.index
                /\ IF Has(t, "cp")
                   THEN /\ Exists(hot, p)
                        /\ \A f \in Under(p) : IsFile(cold, f) => cold[f] = hot[f]
                        /\ IsFile(hot, p) => cold[p] = hot[p]
                   ELSE IF Has(t, "rm") THEN ~Exists(cold, p)
                   ELSE cold = before.cold
\* a Corrupted file restored from hot, the index left as it was
C8_Witness ==
    /\ pc = "walked" /\ last.kind = "Corrupted"
    /\ ops = <<[op |-> "rm", path |-> last.name], [op |-> "cp", path |-> last.name]>>
    /\ before.cold[last.name] # hot[last.name]
    /\ cold[last.name] = hot[last.name]
    /\ index = before.index

\* C9: applying Moved(dst, h, Removed(src, h)) to an index that contains src
\* makes one rename cold/src -> cold/dst and neither a copy nor a remove;
\* afterwards index[dst] = h and src is not in the index.
MovedCalls(src, dst) ==
    <<[op |-> "renames", path |-> src, to |-> dst],
      [op |-> "set", path |-> dst],
      [op |-> "del", path |-> src]>>
Carriers(kind, h) == {n \in 1..Len(emitted) : emitted[n].kind = kind /\ emitted[n].index = h}
Paired ==
    {h \in {emitted[n].index : n \in 1..Len(emitted)} :
        Cardinality(Carriers("Removed", h)) = 1 /\ Cardinality(Carriers("Added", h)) = 1}
Replaced(ch) == ch.kind \in {"Removed", "Added"} /\ ch.index \in Paired
Moveds == {n \in 1..Len(changes) : changes[n].kind = "Moved"}
---------------------------------------------------------------------------
(* Properties of the Index, over every index that set and delete reach.     *)

\* C11: p in I holds exactly when I[p] succeeds, the empty path is always a
\* member and returns I itself; after a successful delete of p, p is not in
\* I; deleting a path that is not in I raises KeyError and changes nothing.
C11_MembershipAgrees ==
    /\ \A p \in IndexKeys : Contains(index, p) <=> GetItem(index, p) # Missing
    /\ Contains(index, <<>>) /\ GetItem(index, <<>>) = Idx(index)
    /\ last.kind = "del" =>
         /\ last.ok <=> last.raised = "none"
         /\ last.ok => ~Contains(index, last.key)
         /\ last.ok <=> (last.key # <<>> /\ Contains(before.index, last.key))
         /\ ~Contains(before.index, last.key) => (last.raised = "KeyError" /\ index = before.index)
\* a path deleted, and a second delete of the same path raising KeyError
C11_Witness ==
    /\ last.kind = "del" /\ last.raised = "KeyError"
    /\ Len(last.key) = 2
    /\ steps = 2
    /\ IndexLen(start.index) = 1
    /\ before.index = EmptyIndex

\* C12: at every node of the index no name is a key of both files and
\* dirs; a set raises, and leaves the index as it was, when it puts a
\* checksum where a directory node is, a sub-Index where a file leaf is, or
\* anything below a file leaf; every other set of a checksum or sub-Index
\* at a non-empty path returns.
RECURSIVE Disjoint(_)
Disjoint(I) ==
    /\ DOMAIN I.files \cap DOMAIN I.dirs = {}
    /\ \A d \in DOMAIN I.dirs : Disjoint(I.dirs[d])
BelowFileLeaf(I, k) == \E n \in 1..(Len(k) - 1) : IsStr(GetItem(I, SubSeq(k, 1, n)))
Collides(I, k, v) ==
    \/ BelowFileLeaf(I, k)
    \/ IsStr(v) /\ IsIdx(GetItem(I, k))
    \/ IsIdx(v) /\ IsStr(GetItem(I, k))
C12_Disjoint ==
    /\ Disjoint(index)
    /\ last.kind = "set" =>
         /\ (last.key # <<>> /\ Collides(before.index, last.key, last.value)) =>
               (~last.ok /\ index = before.index)
         /\ last.ok <=> /\ last.key # <<>>
                        /\ IsStr(last.value) \/ IsIdx(last.value)
                        /\ ~Collides(before.index, last.key, last.value)
\* a checksum set at a/x refused because a is a file leaf
C12_Witness ==
    /\ last.kind = "set" /\ ~last.ok
    /\ Len(last.key) = 2 /\ IsStr(last.value)
    /\ IsStr(GetItem(before.index, <<last.key[1]>>))
    /\ index = before.index

\* C13: every directory node reachable in the index holds at least one
\* file leaf in its subtree.
RECURSIVE NoEmptyDirs(_)
NoEmptyDirs(I) ==
    \A d \in DOMAIN I.dirs : IndexLen(I.dirs[d]) > 0 /\ NoEmptyDirs(I.dirs[d])
C13_NoEmptyDirs == NoEmptyDirs(index)

\* C14: storing an index to index.txt and loading that file yields an
\* index equal to it on (dirs, files).
C14_RoundTrip ==
    last.kind = "load" => (last.ok /\ index = before.index)

\* C15: loading an existing index.txt fails, and yields no index, when its
\* first line does not begin with the header prefix, or the header's
\* version is not 1, or its algorithm is not XXH128, or its coding is not
\* the coding asked for; with any other header and a well-formed body it
\* succeeds.  (A header without a readable version, algorithm or coding
\* counts as not having the required one.)
FirstLine == IF disk.lines = <<>> THEN <<>> ELSE Head(disk.lines)
HasHeader == FirstLine # <<>> /\ Head(FirstLine) = HEADER
HeaderHas(f, v) == f \in DOMAIN FirstLine[2] /\ FirstLine[2][f] = v
HeaderAccepted(coding) ==
    /\ HasHeader
    /\ HeaderHas("version", 1)
    /\ HeaderHas("algorithm", "XXH128")
    /\ HeaderHas("coding", coding)
\* every body line is blank, a comment, or checksum, two blanks, name; and
\* no name is both a file and a directory
BodyWellFormed ==
    LET body == Tail(disk.lines)
        entries == {n \in 1..Len(body) : Strip(body[n]) # <<>> /\ Head(body[n]) # "#"}
        name(n) == Parts(SubSeq(Strip(body[n]), FirstDouble(Strip(body[n])) + 2, Len(Strip(body[n]))), <<>>)
    IN /\ \A n \in entries : FirstDouble(Strip(body[n])) > 1
       /\ \A m, n \in entries : IsPrefix(name(m), name(n)) => name(m) = name(n)
C15_LoadRejection ==
    pc = "loaded" =>
        /\ ~HeaderAccepted(last.coding) => (~last.ok /\ last.raised # "none")
        /\ (HeaderAccepted(last.coding) /\ BodyWellFormed) => (last.ok /\ last.raised = "none")
        /\ last.ok => \A n \in 1..Len(IterKeys(index)) :
                          \E m \in 2..Len(disk.lines) :
                              Strip(disk.lines[m]) = IndexLine(GetItem(index, IterKeys(index)[n]).str, IterKeys(index)[n])
\* a header that asks for another coding than the caller's, refused
C15_Witness ==
    /\ pc = "loaded" /\ ~last.ok
    /\ HasHeader
    /\ HeaderHas("version", 1) /\ HeaderHas("algorithm", "XXH128")
    /\ \E c \in Codings \ {last.coding} : HeaderHas("coding", c)

---------------------------------------------------------------------------
(* Properties of a sync session *)

\* C16: atomic persistence.  While store() runs and after it, index.txt on
\* disk holds either its complete content from before the session or the
\* complete content store() is writing, never a truncated or partial file.
C16_AtomicPersistence ==
    pc \in {"store", "done"} => disk \in {sess.disk0, TextFile(sess.lines)}

\* C17: when an apply raises, the session ends there: the failing action is
\* the last one applied, store() is never called, and index.txt on disk has
\* the content it had when the session started.
ApplyFailed == pc = "raised" /\ sess.raised = "apply"
C17_ApplyFailure ==
    ApplyFailed =>
        /\ sess.applied = SubSeq(sess.actions, 1, Len(sess.applied))
        /\ last = sess.applied[Len(sess.applied)]
        /\ sess.stores = 0
        /\ disk = sess.disk0

\* C18: a No to "Commence N actions?" ends the session with no apply and no
\* store() made, and with the hot tree, the cold tree, the in-memory index
\* and index.txt on disk as they were when the session started.
C18_UserAbort ==
    pc = "aborted" =>
        /\ sess.applied = <<>>
        /\ sess.stores = 0
        /\ hot = start.hot
        /\ index = start.index
        /\ cold = start.cold
        /\ disk = sess.disk0

\* C19: the confirmation protocol.  Once the confirmation loop is over,
\* the changes presented to the user are exactly the post-processed list,
\* each once and in path order; the actions are the changes answered yes,
\* so every action has been presented; and when the session is done each
\* action has been applied once, in that order, before the one store().
Asked == (pc = "ask" /\ steps = Len(changes)) \/ pc \in {"apply", "store", "done", "aborted"}
PathSorted(cs) == \A i, j \in 1..Len(cs) : i < j => ~PathLess(cs[j].name, cs[i].name)
C19_ConfirmationProtocol ==
    /\ Asked => (sess.asked = changes /\ PathSorted(sess.asked))
    /\ \A i \in 1..Len(sess.actions) : \E j \in 1..Len(sess.asked) : sess.asked[j] = sess.actions[i]
    /\ sess.applied = SubSeq(sess.actions, 1, Len(sess.applied))
    /\ pc = "done" => (sess.applied = sess.actions /\ sess.stores = 1)

---------------------------------------------------------------------------
(* Properties of check *)

\* C20: the verdict of check.  It prints 'OK: Data is intact!' exactly when
\* every path of the index is a file of cold_dir whose content hashes to
\* the recorded checksum and every relevant file of cold_dir other than
\* index.txt is a path of the index; otherwise it prints 'FAIL: There
\* were N failures!' with N the number of paths of the index that fail
\* plus the number of such files that the index lacks.
Recorded == Leaves(index)
Verifies(p) == IsFile(cold, p) /\ GetItem(index, p).str = Hash(cold[p].data)
Unindexed == {f \in walk(cold, Root, <<>>).files : f # <<INDEX_FILENAME>> /\ f \notin Recorded}
Failures == Cardinality({p \in Recorded : ~Verifies(p)}) + Cardinality(Unindexed)
C20_CheckVerdict ==
    pc = "checked" =>
        last.out = IF Failures = 0 THEN <<"OK: Data is intact!">>
                   ELSE <<"FAIL: There were N failures!", Failures>>

\* C21: the exit status of check.  When check has run to its verdict, the
\* process ends with status 0 if the failure count is 0 and with a status
\* other than 0 if at least one failure was counted.
C21_ExitStatus ==
    pc = "checked" => (last.exit = 0 <=> last.fail_count = 0)

---------------------------------------------------------------------------
(* Properties of the dual-stream compare *)
Flat(chunks) == Concat(chunks)

---------------------------------------------------------------------------
(* Properties of unreadable files *)

\* C23: a path of the index that cannot be opened in cold_dir (it is
\* missing there, or is a directory) is hashed as the empty input, and
\* check reports a verification failure for it.
Unopenable == {p \in Leaves(index) : ~IsFile(cold, p)}
C23_UnreadableSurfaces ==
    pc = "checked" =>
        \A p \in Unopenable : hash_file(cold, p) = Hash(0) /\ p \in last.err.failed

---------------------------------------------------------------------------
(* Properties of the ignore rules *)

\* C24: under a rule list that starts with root_rules(root), whatever
\* rules follow, root/index.txt is not relevant, is not yielded by walk
\* and is not copied by cp.
RootRuled == Len(last.rules) >= 1 /\ <<last.rules[1]>> = root_rules(Root)
C24_IndexIgnored ==
    (pc = "walked all" /\ RootRuled /\ IsFile(hot, <<INDEX_FILENAME>>)) =>
        /\ last.relevant[<<INDEX_FILENAME>>] # "relevant"
        /\ <<INDEX_FILENAME>> \notin last.walk.files
        /\ last.cp.fs[<<INDEX_FILENAME>>] = None

\* C25: is_relevant looks only at the rules whose root is an ancestor of
\* p and skips the others without error; p is ignored exactly when the
\* last of those that matches p is not a negation.
Applies(p, rules) ==
    {i \in 1..Len(rules) :
        IsPrefix(rules[i].root, p) /\ MatchFile(rules[i], RelativeTo(p, rules[i].root))}
LastPolarity(p, rules) ==
    LET m == Applies(p, rules)
    IN IF m = {} THEN "relevant"
       ELSE IF rules[CHOOSE i \in m : \A j \in m : j <= i].include = "yes" THEN "irrelevant"
       ELSE "relevant"
C25_IgnorePolarity ==
    pc = "walked all" =>
        \A p \in DOMAIN last.relevant :
            (IsFile(hot, p) \/ ListDir(hot, p) # {}) =>
                last.relevant[p] = LastPolarity(p, last.rules)

\* C26: a directory reported by walk_trees as Added, Lost, Removed or
\* Appeared holds at least one regular file somewhere in its subtree, in
\* the tree it was found in; an empty directory, or one holding only empty
\* sub-directories, is never reported.
HoldsFile(fs, p) == \E q \in Under(p) : IsFile(fs, q)
C26_DirectoryRelevance ==
    Returned =>
        \A n \in 1..Len(emitted) :
            LET ch == emitted[n]
            IN /\ (ch.kind \in {"Added", "Lost"} /\ IsDir(start.hot, ch.name)) =>
                      HoldsFile(start.hot, ch.name)
               /\ (ch.kind \in {"Removed", "Appeared"} /\ IsDir(start.cold, ch.name)) =>
                      HoldsFile(start.cold, ch.name)

\* C27: walk applies to a path the caller's rules followed by the rules of
\* the .gitignore files of that path's own ancestors, outermost first, and
\* no others: the rules of a directory reach no sibling of it and no path
\* outside it.
RECURSIVE Scoped(_, _, _, _)
Scoped(fs, q, rules, k) ==
    IF k >= Len(q) THEN rules
    ELSE Scoped(fs, q, add_scandir_rules(fs, SubSeq(q, 1, k), rules), k + 1)
Verdict(fs, q, rules) == RuleLoop(q, Scoped(fs, q, rules, 0), 1, FALSE)
Visited(fs, q, rules) ==
    \A k \in 0..(Len(q) - 1) : Verdict(fs, SubSeq(q, 1, k), rules) = "relevant"
---------------------------------------------------------------------------
(* Properties of a failing apply *)

\* C28: within one apply the index is touched only after every rm and cp
\* of that apply has completed; when rm or cp raises in the apply of an
\* Added, ModifiedLost, Modified, ModifiedCorrupted, AddedAppeared, Removed
\* or RemovedCorrupted change, the index is exactly as before that apply.
IndexAfterFiles ==
    {"Added", "ModifiedLost", "Modified", "ModifiedCorrupted", "AddedAppeared",
     "Removed", "RemovedCorrupted"}
FileCalls == {"cp", "rm"}
RaisedInFiles == pc = "failed" /\ ops # <<>> /\ ops[Len(ops)].op \in FileCalls
C28_IndexAfterFiles ==
    (last # NoChange /\ last.kind \in IndexAfterFiles) =>
        /\ \A i, j \in 1..Len(ops) :
              (ops[i].op \in {"set", "del"} /\ ops[j].op \in FileCalls) => j < i
        /\ RaisedInFiles => index = before.index
C28_Witness ==
    /\ RaisedInFiles
    /\ last.kind = "ModifiedLost"
    /\ ops = <<[op |-> "cp", path |-> last.name]>>
    /\ Contains(index, last.name)
    /\ GetItem(index, last.name) # last.index

\* C29: an index[k] = v that raises (a name collision at any depth, a
\* value that is neither a checksum nor an Index, the empty path) leaves
\* the index as it was: no directory node created on the way remains,
\* and membership and length are those before the call.
SetRaised == pc = "index" /\ last.kind = "set" /\ ~last.ok
C29_FailedSetUnchanged ==
    SetRaised =>
        /\ index = before.index
        /\ \A k \in IndexKeys : Contains(index, k) <=> Contains(before.index, k)
        /\ IndexLen(index) = IndexLen(before.index)

---------------------------------------------------------------------------
(* Properties of index.txt between sessions *)

\* C30: a session that started from no index.txt or from a valid one and
\* ended without store() -- a check, a sync the user aborted, a sync whose
\* apply raised -- leaves an index.txt the next Index(cold_dir) loads.
EndedWithoutStore == pc \in {"checked", "aborted"} \/ ApplyFailed
C30_LoadableAfterSession ==
    EndedWithoutStore => Load(disk, "utf8").ok

====
